---- MODULE Spec2Model ----
(***************************************************************************)
(* State-machine model of the jlearn content audit script (the run loop,   *)
(* auditUnit and its section validators, the two content scanners and the  *)
(* chapters.ts cross-reference) and of the Quiz and Flashcard widgets.     *)
(*                                                                         *)
(* JavaScript strings are sequences of characters (one-character strings;  *)
(* the three kanji of the forbidden names are the tokens "U+9ED1" (hei,    *)
(* Chinese form), "U+9ED2" (kuro, Japanese form) and "U+6728" (ki)).       *)
(* Decoded JSON values are records [t, v] tagged by their JavaScript type. *)
(***************************************************************************)
EXTENDS Integers, Sequences, FiniteSets, TLC

VARIABLES
    pc,                    \* position of the top-level script
    dataDir,               \* the listing of src/data
    chaptersTs,            \* the text of src/data/chapters.ts
    unitFiles,             \* const unitFiles = discoverUnitFiles()
    next,                  \* index of the next file of the for-of loop
    reads,                 \* what auditUnit saw for each file audited so far
    issues,                \* const issues = []
    totalUnitsChecked,
    totalSectionsChecked,
    crossIssues,           \* const crossIssues = crossReferenceChapters()
    out,                   \* the lines written to standard output
    \* Quiz.tsx
    quizQuestions,         \* props.questions: the `correct` of each question
    unitId,                \* props.unitId is given
    storage,               \* localStorage can be read and written
    progress,              \* the entry of unitId in 'jlearn-progress'
    currentQ,
    selected,
    score,
    showResult,
    answered,
    \* Flashcard.tsx
    deckCards,             \* props.cards.length
    currentIndex,
    isFlipped,
    touchStart,
    timers                 \* pending setTimeout callbacks, oldest first

auditVars == <<pc, dataDir, chaptersTs, unitFiles, next, reads, issues,
               totalUnitsChecked, totalSectionsChecked, crossIssues, out>>
quizVars == <<quizQuestions, unitId, storage, progress, currentQ, selected,
              score, showResult, answered>>
flashcardVars == <<deckCards, currentIndex, isFlipped, touchStart, timers>>

vars == <<auditVars, quizVars, flashcardVars>>

\* `null` of a number | null state (selected, touchStart).
Null == 0 - 1

\* No widget is mounted: the audit script runs outside the site.
QuizUnmounted ==
    /\ quizQuestions = <<>>
    /\ unitId = FALSE
    /\ storage = FALSE
    /\ progress = <<>>
    /\ currentQ = 0
    /\ selected = Null
    /\ score = 0
    /\ showResult = FALSE
    /\ answered = FALSE
FlashcardUnmounted ==
    /\ deckCards = 0
    /\ currentIndex = 0
    /\ isFlipped = FALSE
    /\ touchStart = Null
    /\ timers = <<>>

----------------------------------------------------------------------------
(* Strings *)

\* The characters of an ASCII string literal.
Chars(s) == [i \in 1..Len(s) |-> SubSeq(s, i, i)]

Hei  == "U+9ED1"
Kuro == "U+9ED2"
Ki   == "U+6728"

\* String.prototype.includes
includes(s, sub) ==
    \E i \in 0..(Len(s) - Len(sub)) : SubSeq(s, i + 1, i + Len(sub)) = sub

\* String.prototype.startsWith
startsWith(s, p) == Len(s) >= Len(p) /\ SubSeq(s, 1, Len(p)) = p

Digit(d) == SubSeq("0123456789", d + 1, d + 1)

\* Decimal digits of a natural number, as `${n}` prints it.
RECURSIVE NatToString(_)
NatToString(n) ==
    IF n < 10 THEN <<Digit(n)>>
    ELSE NatToString(n \div 10) \o <<Digit(n % 10)>>

RECURSIVE Flatten(_)
Flatten(ss) == IF ss = <<>> THEN <<>> ELSE Head(ss) \o Flatten(Tail(ss))

----------------------------------------------------------------------------
(* Decoded JSON values.  A number n is stored as v = 2 * n, so that the    *)
(* halves (1.5, 2.5, ...) are representable next to the integers.          *)

JUndef    == [t |-> "undef", v |-> 0]       \* the value of an absent property
JNull     == [t |-> "null", v |-> 0]
JBool(b)  == [t |-> "bool", v |-> b]
JNum(n)   == [t |-> "num", v |-> 2 * n]
JHalf(n2) == [t |-> "num", v |-> n2]
JStr(s)   == [t |-> "str", v |-> s]
JS(s)     == JStr(Chars(s))
JArr(a)   == [t |-> "arr", v |-> a]
JObj(o)   == [t |-> "obj", v |-> o]         \* sequence of <<key, value>>

\* x === undefined || x === null
Nullish(x) == x.t \in {"undef", "null"}

\* ToBoolean
Truthy(x) ==
    CASE x.t \in {"undef", "null"} -> FALSE
      [] x.t = "bool" -> x.v
      [] x.t = "num"  -> x.v # 0
      [] x.t = "str"  -> x.v # <<>>
      [] OTHER        -> TRUE

\* Array.isArray
IsArray(x) == x.t = "arr"

\* x[key] for a value x that is neither null nor undefined: own properties
\* of an object; none of the keys the script reads is a property of a
\* string, number, boolean or array.
Get(x, key) ==
    IF x.t = "obj" /\ \E k \in 1..Len(x.v) : x.v[k][1] = Chars(key)
    THEN x.v[CHOOSE k \in 1..Len(x.v) : x.v[k][1] = Chars(key)][2]
    ELSE JUndef

\* a || b
Or(a, b) == IF Truthy(a) THEN a ELSE b

\* JSToString, as a template literal applies it.
RECURSIVE JSToString(_), JoinFrom(_, _)
JSToString(x) ==
    CASE x.t = "undef" -> Chars("undefined")
      [] x.t = "null"  -> Chars("null")
      [] x.t = "bool"  -> IF x.v THEN Chars("true") ELSE Chars("false")
      [] x.t = "num"   ->
            LET a == IF x.v < 0 THEN 0 - x.v ELSE x.v
            IN  (IF x.v < 0 THEN <<"-">> ELSE <<>>)
                \o NatToString(a \div 2)
                \o (IF a % 2 = 1 THEN Chars(".5") ELSE <<>>)
      [] x.t = "str"   -> x.v
      [] x.t = "arr"   -> JoinFrom(x.v, 1)
      [] OTHER         -> Chars("[object Object]")
JoinFrom(a, k) ==
    IF k > Len(a) THEN <<>>
    ELSE (IF k > 1 THEN <<",">> ELSE <<>>)
         \o (IF Nullish(a[k]) THEN <<>> ELSE JSToString(a[k]))
         \o JoinFrom(a, k + 1)

----------------------------------------------------------------------------
(* Helpers *)

addIssue(file, sectionType, problem) ==
    [file |-> file, sectionType |-> sectionType, problem |-> problem]

\* path.relative(__dirname, absPath); paths are kept relative to __dirname.
relPath(absPath) == absPath

\* Recursively find empty strings in an object, returning paths.
RECURSIVE findEmptyStrings(_, _), findEmptyStringsIn(_, _, _)
findEmptyStrings(obj, currentPath) ==
    CASE Nullish(obj)   -> <<>>
      [] obj.t = "str"  -> IF obj.v = <<>> THEN <<currentPath>> ELSE <<>>
      [] obj.t \in {"arr", "obj"} -> findEmptyStringsIn(obj, currentPath, 1)
      [] OTHER          -> <<>>
findEmptyStringsIn(obj, currentPath, k) ==
    IF k > Len(obj.v) THEN <<>>
    ELSE (IF obj.t = "arr"
          THEN findEmptyStrings(obj.v[k],
                   currentPath \o <<"[">> \o NatToString(k - 1) \o <<"]">>)
          ELSE findEmptyStrings(obj.v[k][2],
                   currentPath \o <<".">> \o obj.v[k][1]))
         \o findEmptyStringsIn(obj, currentPath, k + 1)

\* Recursively find forbidden names.
RECURSIVE findForbiddenNames(_, _), findForbiddenNamesIn(_, _, _)
findForbiddenNames(obj, currentPath) ==
    CASE Nullish(obj)   -> <<>>
      [] obj.t = "str"  ->
            IF includes(obj.v, <<Hei, Ki>>) \/ includes(obj.v, <<Kuro, Ki>>)
            THEN <<[path |-> currentPath,
                    matched |-> IF includes(obj.v, <<Hei, Ki>>)
                                THEN <<Hei, Ki>> ELSE <<Kuro, Ki>>]>>
            ELSE <<>>
      [] obj.t \in {"arr", "obj"} -> findForbiddenNamesIn(obj, currentPath, 1)
      [] OTHER          -> <<>>
findForbiddenNamesIn(obj, currentPath, k) ==
    IF k > Len(obj.v) THEN <<>>
    ELSE (IF obj.t = "arr"
          THEN findForbiddenNames(obj.v[k],
                   currentPath \o <<"[">> \o NatToString(k - 1) \o <<"]">>)
          ELSE findForbiddenNames(obj.v[k][2],
                   currentPath \o <<".">> \o obj.v[k][1]))
         \o findForbiddenNamesIn(obj, currentPath, k + 1)

----------------------------------------------------------------------------
(* Section validators.  A validator yields the Issues it pushes, in order, *)
(* and whether it ended in an uncaught TypeError (a property read on null  *)
(* or undefined); Issues pushed before the throw stay in `issues`.         *)

Ok(iss)    == [iss |-> iss, thrown |-> FALSE]
Throw(iss) == [iss |-> iss, thrown |-> TRUE]
Then(r1, r2) ==
    IF r1.thrown THEN r1
    ELSE [iss |-> r1.iss \o r2.iss, thrown |-> r2.thrown]

\* `sections[${sectionIndex}] (<kind> "${section.title || ''}")`
sectionPrefix(section, sectionIndex, kind) ==
    Chars("sections[") \o NatToString(sectionIndex) \o Chars("] (")
    \o Chars(kind) \o Chars(" \"")
    \o JSToString(Or(Get(section, "title"), JS(""))) \o Chars("\")")

\* The fields f of `fields` with x[f] === undefined || x[f] === null.
missingFields(x, fields) == SelectSeq(fields, LAMBDA f : Nullish(Get(x, f)))

vocabRequiredFields ==
    <<"japanese", "reading", "romaji", "chinese", "example", "exampleChinese">>

RECURSIVE checkVocabItems(_, _, _, _)
checkVocabItems(items, k, filePath, prefix) ==
    IF k > Len(items) THEN Ok(<<>>)
    ELSE IF Nullish(items[k]) THEN Throw(<<>>)
    ELSE LET item == items[k]
             m == missingFields(item, vocabRequiredFields)
         IN  Then(Ok([j \in 1..Len(m) |->
                        addIssue(filePath, "vocab",
                            prefix \o Chars(": items[") \o NatToString(k - 1)
                            \o Chars("] missing \"") \o Chars(m[j])
                            \o Chars("\" (japanese: \"")
                            \o JSToString(Or(Get(item, "japanese"), JS("?")))
                            \o Chars("\")"))]),
                  checkVocabItems(items, k + 1, filePath, prefix))

\* checkVocab without the returns that follow the Issues about the array.
checkVocabNoReturn(section, filePath, sectionIndex) ==
    LET prefix == sectionPrefix(section, sectionIndex, "vocab")
        items  == Get(section, "items")
    IN  Then(Ok((IF ~Truthy(items)
                 THEN <<addIssue(filePath, "vocab",
                                 prefix \o Chars(": missing \"items\" array"))>>
                 ELSE <<>>)
                \o (IF ~IsArray(items)
                    THEN <<addIssue(filePath, "vocab",
                                    prefix \o Chars(": \"items\" is not an array"))>>
                    ELSE <<>>)
                \o (IF IsArray(items) /\ Len(items.v) = 0
                    THEN <<addIssue(filePath, "vocab",
                                    prefix \o Chars(": \"items\" array is empty"))>>
                    ELSE <<>>)),
             IF IsArray(items)
             THEN checkVocabItems(items.v, 1, filePath, prefix)
             ELSE Ok(<<>>))

checkVocab(section, filePath, sectionIndex) ==
    LET prefix == sectionPrefix(section, sectionIndex, "vocab")
        items  == Get(section, "items")
    IN  IF ~Truthy(items)
        THEN Ok(<<addIssue(filePath, "vocab",
                           prefix \o Chars(": missing \"items\" array"))>>)
        ELSE IF ~IsArray(items)
        THEN Ok(<<addIssue(filePath, "vocab",
                           prefix \o Chars(": \"items\" is not an array"))>>)
        ELSE IF Len(items.v) = 0
        THEN Ok(<<addIssue(filePath, "vocab",
                           prefix \o Chars(": \"items\" array is empty"))>>)
        ELSE checkVocabItems(items.v, 1, filePath, prefix)

dialogueRequiredFields == <<"speaker", "japanese", "chinese">>

RECURSIVE checkDialogueLines(_, _, _, _)
checkDialogueLines(lines, k, filePath, prefix) ==
    IF k > Len(lines) THEN Ok(<<>>)
    ELSE IF Nullish(lines[k]) THEN Throw(<<>>)
    ELSE LET m == missingFields(lines[k], dialogueRequiredFields)
         IN  Then(Ok([j \in 1..Len(m) |->
                        addIssue(filePath, "dialogue",
                            prefix \o Chars(": lines[") \o NatToString(k - 1)
                            \o Chars("] missing \"") \o Chars(m[j])
                            \o Chars("\""))]),
                  checkDialogueLines(lines, k + 1, filePath, prefix))

checkDialogue(section, filePath, sectionIndex) ==
    LET prefix == sectionPrefix(section, sectionIndex, "dialogue")
        scene  == Get(section, "scene")
        lines  == Get(section, "lines")
        sceneIssues ==
            (IF ~Truthy(scene) /\ scene # JS("")
             THEN <<addIssue(filePath, "dialogue",
                             prefix \o Chars(": missing \"scene\""))>>
             ELSE <<>>)
            \o (IF scene = JS("")
                THEN <<addIssue(filePath, "dialogue",
                           prefix \o Chars(": \"scene\" is an empty string"))>>
                ELSE <<>>)
    IN  IF ~Truthy(lines)
        THEN Ok(sceneIssues \o <<addIssue(filePath, "dialogue",
                           prefix \o Chars(": missing \"lines\" array"))>>)
        ELSE IF ~IsArray(lines)
        THEN Ok(sceneIssues \o <<addIssue(filePath, "dialogue",
                           prefix \o Chars(": \"lines\" is not an array"))>>)
        ELSE IF Len(lines.v) = 0
        THEN Ok(sceneIssues \o <<addIssue(filePath, "dialogue",
                           prefix \o Chars(": \"lines\" array is empty"))>>)
        ELSE Then(Ok(sceneIssues),
                  checkDialogueLines(lines.v, 1, filePath, prefix))

grammarRequiredFields == <<"pattern", "meaning", "structure">>

RECURSIVE checkGrammarPoints(_, _, _, _)
checkGrammarPoints(points, k, filePath, prefix) ==
    IF k > Len(points) THEN Ok(<<>>)
    ELSE IF Nullish(points[k]) THEN Throw(<<>>)
    ELSE LET pt == points[k]
             m  == missingFields(pt, grammarRequiredFields)
             pattern == Chars(" (pattern: \"")
                        \o JSToString(Or(Get(pt, "pattern"), JS("?")))
                        \o Chars("\")")
             examples == Get(pt, "examples")
         IN  Then(Ok([j \in 1..Len(m) |->
                        addIssue(filePath, "grammar",
                            prefix \o Chars(": points[") \o NatToString(k - 1)
                            \o Chars("] missing \"") \o Chars(m[j])
                            \o Chars("\"") \o pattern)]
                     \o (IF ~Truthy(examples)
                         THEN <<addIssue(filePath, "grammar",
                                  prefix \o Chars(": points[")
                                  \o NatToString(k - 1)
                                  \o Chars("] missing \"examples\" array")
                                  \o pattern)>>
                         ELSE IF ~IsArray(examples) \/ Len(examples.v) = 0
                         THEN <<addIssue(filePath, "grammar",
                                  prefix \o Chars(": points[")
                                  \o NatToString(k - 1)
                                  \o Chars("] \"examples\" is empty or not an array")
                                  \o pattern)>>
                         ELSE <<>>)),
                  checkGrammarPoints(points, k + 1, filePath, prefix))

checkGrammar(section, filePath, sectionIndex) ==
    LET prefix == sectionPrefix(section, sectionIndex, "grammar")
        points == Get(section, "points")
    IN  IF ~Truthy(points)
        THEN Ok(<<addIssue(filePath, "grammar",
                           prefix \o Chars(": missing \"points\" array"))>>)
        ELSE IF ~IsArray(points)
        THEN Ok(<<addIssue(filePath, "grammar",
                           prefix \o Chars(": \"points\" is not an array"))>>)
        ELSE IF Len(points.v) = 0
        THEN Ok(<<addIssue(filePath, "grammar",
                           prefix \o Chars(": \"points\" array is empty"))>>)
        ELSE checkGrammarPoints(points.v, 1, filePath, prefix)

flashcardRequiredFields == <<"japanese", "reading", "romaji", "chinese">>

\* `${prefix}: cards[${i}] missing "${field}" (japanese: "...")`, one per
\* required field the card lacks (lines 231-235).
flashcardMissingIssues(card, i, filePath, prefix) ==
    LET m == missingFields(card, flashcardRequiredFields)
    IN  [j \in 1..Len(m) |->
            addIssue(filePath, "flashcards",
                prefix \o Chars(": cards[") \o NatToString(i)
                \o Chars("] missing \"") \o Chars(m[j])
                \o Chars("\" (japanese: \"")
                \o JSToString(Or(Or(Get(card, "japanese"),
                                    Get(card, "front")), JS("?")))
                \o Chars("\")"))]

\* Lines 229-231: the old-format Issue of card i.
flashcardLegacyIssues(card, i, filePath, prefix) ==
    IF Get(card, "front") # JUndef \/ Get(card, "back") # JUndef
    THEN <<addIssue(filePath, "flashcards",
              prefix \o Chars(": cards[") \o NatToString(i)
              \o Chars("] uses old \"front/back\" format instead of \"japanese/reading/romaji/chinese\""))>>
    ELSE <<>>

\* The body of the forEach callback with the required fields checked only
\* for a card that is not in the old format.
flashcardCardIssuesLegacyInstead(card, i, filePath, prefix) ==
    IF flashcardLegacyIssues(card, i, filePath, prefix) # <<>>
    THEN flashcardLegacyIssues(card, i, filePath, prefix)
    ELSE flashcardMissingIssues(card, i, filePath, prefix)

\* Lines 228-236: the body of the forEach callback for card i.
flashcardCardIssues(card, i, filePath, prefix) ==
    flashcardLegacyIssues(card, i, filePath, prefix)
    \o flashcardMissingIssues(card, i, filePath, prefix)

\* Lines 227-237: the old-format check and the required fields of each card.
RECURSIVE checkFlashcardCards(_, _, _, _)
checkFlashcardCards(cards, k, filePath, prefix) ==
    IF k > Len(cards) THEN Ok(<<>>)
    ELSE IF Nullish(cards[k]) THEN Throw(<<>>)
    ELSE Then(Ok(flashcardCardIssues(cards[k], k - 1, filePath, prefix)),
              checkFlashcardCards(cards, k + 1, filePath, prefix))

\* The property names every object literal inherits from Object.prototype;
\* each of them reads as a truthy value on `const seen = {}`.
ObjectPrototypeKeys ==
    {Chars("constructor"), Chars("toString"), Chars("valueOf"),
     Chars("hasOwnProperty"), Chars("isPrototypeOf"),
     Chars("propertyIsEnumerable"), Chars("toLocaleString"),
     Chars("__proto__"), Chars("__defineGetter__"), Chars("__defineSetter__"),
     Chars("__lookupGetter__"), Chars("__lookupSetter__")}

\* seen[f], with `seen` the set of keys assigned true so far.
seenLookup(seen, key) == key \in seen \/ key \in ObjectPrototypeKeys

\* Line 240: section.cards.map(c => c.japanese || c.front || '')
\*                        .filter(f => f !== '')
flashcardFronts(cards) ==
    SelectSeq([k \in 1..Len(cards) |->
                  Or(Or(Get(cards[k], "japanese"), Get(cards[k], "front")),
                     JS(""))],
              LAMBDA f : ~(f.t = "str" /\ f.v = <<>>))

\* Lines 241-247: the duplicate check over the fronts.
RECURSIVE checkFlashcardDuplicates(_, _, _, _, _)
checkFlashcardDuplicates(fronts, k, seen, filePath, prefix) ==
    IF k > Len(fronts) THEN <<>>
    ELSE LET key == JSToString(fronts[k])
         IN  (IF seenLookup(seen, key)
              THEN <<addIssue(filePath, "flashcards",
                        prefix \o Chars(": DUPLICATE flashcard front/japanese value: \"")
                        \o key \o Chars("\""))>>
              ELSE <<>>)
             \o checkFlashcardDuplicates(fronts, k + 1, seen \cup {key},
                                         filePath, prefix)

\* The values `seen` would hold from the files audited so far if it were
\* declared outside checkFlashcards.
seenInEarlierFiles ==
    UNION {LET sections == Get(reads[i].file.data, "sections")
           IN  IF reads[i].file.ok /\ IsArray(sections)
               THEN UNION {LET cards == Get(sections.v[k], "cards")
                           IN  IF /\ Get(sections.v[k], "type") = JS("flashcards")
                                  /\ IsArray(cards)
                               THEN {JSToString(flashcardFronts(cards.v)[n]) :
                                        n \in 1..Len(flashcardFronts(cards.v))}
                               ELSE {} : k \in 1..Len(sections.v)}
               ELSE {} : i \in 1..Len(reads)}

\* checkFlashcards with a `seen` that outlives the call.
checkFlashcardsSharedSeen(section, filePath, sectionIndex) ==
    LET prefix == sectionPrefix(section, sectionIndex, "flashcards")
        cards  == Get(section, "cards")
    IN  IF ~Truthy(cards)
        THEN Ok(<<addIssue(filePath, "flashcards",
                           prefix \o Chars(": missing \"cards\" array"))>>)
        ELSE IF ~IsArray(cards)
        THEN Ok(<<addIssue(filePath, "flashcards",
                           prefix \o Chars(": \"cards\" is not an array"))>>)
        ELSE IF Len(cards.v) = 0
        THEN Ok(<<addIssue(filePath, "flashcards",
                           prefix \o Chars(": \"cards\" array is empty"))>>)
        ELSE Then(checkFlashcardCards(cards.v, 1, filePath, prefix),
                  Ok(checkFlashcardDuplicates(flashcardFronts(cards.v),
                                              1, seenInEarlierFiles,
                                              filePath, prefix)))

checkFlashcards(section, filePath, sectionIndex) ==
    LET prefix == sectionPrefix(section, sectionIndex, "flashcards")
        cards  == Get(section, "cards")
    IN  IF ~Truthy(cards)
        THEN Ok(<<addIssue(filePath, "flashcards",
                           prefix \o Chars(": missing \"cards\" array"))>>)
        ELSE IF ~IsArray(cards)
        THEN Ok(<<addIssue(filePath, "flashcards",
                           prefix \o Chars(": \"cards\" is not an array"))>>)
        ELSE IF Len(cards.v) = 0
        THEN Ok(<<addIssue(filePath, "flashcards",
                           prefix \o Chars(": \"cards\" array is empty"))>>)
        ELSE Then(checkFlashcardCards(cards.v, 1, filePath, prefix),
                  Ok(checkFlashcardDuplicates(flashcardFronts(cards.v),
                                              1, {}, filePath, prefix)))

\* `: "${q.question || '?'}"`
quizQuestionText(q) ==
    Chars(": \"") \o JSToString(Or(Get(q, "question"), JS("?")))
    \o Chars("\"")

\* The options check with `< 4` in place of `!== 4`.
quizOptionsIssuesTooFewOnly(q, i, filePath, prefix) ==
    LET options == Get(q, "options")
        at == prefix \o Chars(": questions[") \o NatToString(i) \o Chars("] ")
    IN  IF ~Truthy(options)
        THEN <<addIssue(filePath, "quiz", at \o Chars("missing \"options\""))>>
        ELSE IF ~IsArray(options)
        THEN <<addIssue(filePath, "quiz",
                        at \o Chars("\"options\" is not an array"))>>
        ELSE IF Len(options.v) < 4
        THEN <<addIssue(filePath, "quiz",
                        at \o Chars("has ") \o NatToString(Len(options.v))
                        \o Chars(" options (expected 4)")
                        \o quizQuestionText(q))>>
        ELSE <<>>

\* Lines 268-274: the options of question i.
quizOptionsIssues(q, i, filePath, prefix) ==
    LET options == Get(q, "options")
        at == prefix \o Chars(": questions[") \o NatToString(i) \o Chars("] ")
    IN  IF ~Truthy(options)
        THEN <<addIssue(filePath, "quiz", at \o Chars("missing \"options\""))>>
        ELSE IF ~IsArray(options)
        THEN <<addIssue(filePath, "quiz",
                        at \o Chars("\"options\" is not an array"))>>
        ELSE IF Len(options.v) # 4
        THEN <<addIssue(filePath, "quiz",
                        at \o Chars("has ") \o NatToString(Len(options.v))
                        \o Chars(" options (expected 4)")
                        \o quizQuestionText(q))>>
        ELSE <<>>

\* Lines 275-279: the correct answer of question i.
quizCorrectIssues(q, i, filePath, prefix) ==
    LET correct == Get(q, "correct")
        at == prefix \o Chars(": questions[") \o NatToString(i) \o Chars("] ")
    IN  IF Nullish(correct)
        THEN <<addIssue(filePath, "quiz", at \o Chars("missing \"correct\""))>>
        ELSE IF correct.t # "num" \/ correct.v < 2 * 0 \/ correct.v > 2 * 3
        THEN <<addIssue(filePath, "quiz",
                        at \o Chars("\"correct\" is ") \o JSToString(correct)
                        \o Chars(" (expected 0-3)") \o quizQuestionText(q))>>
        ELSE <<>>

RECURSIVE checkQuizQuestions(_, _, _, _)
checkQuizQuestions(questions, k, filePath, prefix) ==
    IF k > Len(questions) THEN Ok(<<>>)
    ELSE IF Nullish(questions[k]) THEN Throw(<<>>)
    ELSE LET q  == questions[k]
             at == prefix \o Chars(": questions[") \o NatToString(k - 1)
                   \o Chars("] ")
         IN  Then(Ok((IF ~Truthy(Get(q, "question"))
                      THEN <<addIssue(filePath, "quiz",
                                      at \o Chars("missing \"question\""))>>
                      ELSE <<>>)
                     \o quizOptionsIssues(q, k - 1, filePath, prefix)
                     \o quizCorrectIssues(q, k - 1, filePath, prefix)
                     \o (IF ~Truthy(Get(q, "explanation"))
                         THEN <<addIssue(filePath, "quiz",
                                   at \o Chars("missing \"explanation\"")
                                   \o quizQuestionText(q))>>
                         ELSE <<>>)),
                  checkQuizQuestions(questions, k + 1, filePath, prefix))

checkQuiz(section, filePath, sectionIndex) ==
    LET prefix    == sectionPrefix(section, sectionIndex, "quiz")
        questions == Get(section, "questions")
    IN  IF ~Truthy(questions)
        THEN Ok(<<addIssue(filePath, "quiz",
                           prefix \o Chars(": missing \"questions\" array"))>>)
        ELSE IF ~IsArray(questions)
        THEN Ok(<<addIssue(filePath, "quiz",
                           prefix \o Chars(": \"questions\" is not an array"))>>)
        ELSE IF Len(questions.v) = 0
        THEN Ok(<<addIssue(filePath, "quiz",
                           prefix \o Chars(": \"questions\" array is empty"))>>)
        ELSE checkQuizQuestions(questions.v, 1, filePath, prefix)

checkCulture(section, filePath, sectionIndex) ==
    LET prefix  == sectionPrefix(section, sectionIndex, "culture")
        content == Get(section, "content")
    IN  Ok((IF ~Truthy(content) /\ content # JS("")
            THEN <<addIssue(filePath, "culture",
                            prefix \o Chars(": missing \"content\""))>>
            ELSE <<>>)
           \o (IF content = JS("")
               THEN <<addIssue(filePath, "culture",
                          prefix \o Chars(": \"content\" is an empty string"))>>
               ELSE <<>>))

----------------------------------------------------------------------------
(* Main audit.  A unit file as fs.readFileSync + JSON.parse see it: either *)
(* the decoded value, or the message of the error either of them threw.    *)

FileJson(data)   == [ok |-> TRUE, data |-> data, error |-> <<>>]
FileError(msg)   == [ok |-> FALSE, data |-> JUndef, error |-> Chars(msg)]

\* auditUnit without its try/catch: the read or decode error escapes.
parseFailureUncaught(rel, file) ==
    [iss |-> <<>>, thrown |-> TRUE, units |-> 0, sections |-> 0]

\* Lines 301-307: the catch block.
parseFailure(rel, file) ==
    [iss |-> <<addIssue(rel, "parse",
                        Chars("Failed to parse JSON: ") \o file.error)>>,
     thrown |-> FALSE, units |-> 0, sections |-> 0]

topLevelFields == <<"title", "intro", "estimatedTime", "sections">>

\* Lines 312-319: presence of the top-level fields, empty top-level strings.
generalFieldIssues(data, rel) ==
    LET m == missingFields(data, topLevelFields)
        emptyField(f) ==
            IF Get(data, f) = JS("")
            THEN <<addIssue(rel, "general",
                            Chars("\"") \o Chars(f)
                            \o Chars("\" is an empty string"))>>
            ELSE <<>>
    IN  [j \in 1..Len(m) |->
            addIssue(rel, "general",
                     Chars("Missing top-level field: \"") \o Chars(m[j])
                     \o Chars("\""))]
        \o emptyField("title") \o emptyField("intro")
        \o emptyField("estimatedTime")

\* Lines 344-365: the switch on the section type.
checkSection(section, sType, rel, idx) ==
    CASE sType = JS("vocab")      -> checkVocab(section, rel, idx)
      [] sType = JS("dialogue")   -> checkDialogue(section, rel, idx)
      [] sType = JS("grammar")    -> checkGrammar(section, rel, idx)
      [] sType = JS("flashcards") -> checkFlashcards(section, rel, idx)
      [] sType = JS("quiz")       -> checkQuiz(section, rel, idx)
      [] sType = JS("culture")    -> checkCulture(section, rel, idx)
      [] OTHER ->
            Ok(<<addIssue(rel, "general",
                     Chars("sections[") \o NatToString(idx)
                     \o Chars("] has unknown type: \"") \o JSToString(sType)
                     \o Chars("\""))>>)

\* Lines 334-366: data.sections.forEach.  Yields the Issues, whether a
\* TypeError escaped, the number of sections counted and the section types
\* added to sectionTypes.
\* Lines 335-365: the callback of the forEach on one (non-null) section.
auditSection(section, sType, rel, idx) ==
    IF ~Truthy(sType)
    THEN Ok(<<addIssue(rel, "general",
                       Chars("sections[") \o NatToString(idx)
                       \o Chars("] missing \"type\""))>>)
    ELSE checkSection(section, sType, rel, idx)

\* The outcome of one section followed by the outcome of the later ones.
sectionThen(this, sType, rest) ==
    IF this.thrown
    THEN [iss |-> this.iss, thrown |-> TRUE, sections |-> 1, types |-> {sType}]
    ELSE [iss |-> this.iss \o rest.iss, thrown |-> rest.thrown,
          sections |-> 1 + rest.sections, types |-> {sType} \cup rest.types]

RECURSIVE auditSections(_, _, _)
auditSections(sections, k, rel) ==
    IF k > Len(sections)
    THEN [iss |-> <<>>, thrown |-> FALSE, sections |-> 0, types |-> {}]
    ELSE IF Nullish(sections[k])
    THEN [iss |-> <<>>, thrown |-> TRUE, sections |-> 1, types |-> {}]
    ELSE sectionThen(auditSection(sections[k], Get(sections[k], "type"),
                                  rel, k - 1),
                     Get(sections[k], "type"),
                     auditSections(sections, k + 1, rel))

\* The essential section types with culture among them.
requiredSectionsWithCulture ==
    <<"flashcards", "quiz", "vocab", "dialogue", "grammar", "culture">>

requiredSections == <<"flashcards", "quiz", "vocab", "dialogue", "grammar">>

\* Lines 369-374: the essential section types.
requiredSectionIssues(sectionTypes, rel) ==
    LET m == SelectSeq(requiredSections, LAMBDA req : JS(req) \notin sectionTypes)
    IN  [j \in 1..Len(m) |->
            addIssue(rel, "missing-section",
                     Chars("Unit is missing a \"") \o Chars(m[j])
                     \o Chars("\" section"))]

\* Lines 377-381: forbidden names.
forbiddenNameIssues(data, rel) ==
    LET forbiddenResults == findForbiddenNames(data, Chars("root"))
    IN  [j \in 1..Len(forbiddenResults) |->
            addIssue(rel, "forbidden-name",
                     Chars("Found forbidden name \"")
                     \o forbiddenResults[j].matched \o Chars("\" at ")
                     \o forbiddenResults[j].path)]

\* Line 389: the filter on the paths of the empty strings.
emptyStringReported(p) == startsWith(p, Chars("root.sections"))

\* Lines 384-392: empty strings in section data.
emptyStringIssues(data, rel) ==
    LET emptyResults == SelectSeq(findEmptyStrings(data, Chars("root")),
                                  emptyStringReported)
    IN  [j \in 1..Len(emptyResults) |->
            addIssue(rel, "empty-string",
                     Chars("Empty string at ") \o emptyResults[j])]

\* Lines 321-329: what stops the unit's checks before the sections.
sectionsStop(data, rel) ==
    LET sections == Get(data, "sections")
    IN  IF ~Truthy(sections) \/ ~IsArray(sections)
        THEN <<addIssue(rel, "general",
                 Chars("\"sections\" is missing or not an array -- cannot continue checking this unit"))>>
        ELSE IF Len(sections.v) = 0
        THEN <<addIssue(rel, "general", Chars("\"sections\" array is empty"))>>
        ELSE <<>>

\* Lines 309-392: the checks of a decoded document.
\* Lines 368-392: what follows the forEach, whose outcome is s.
afterSections(s, data, rel) ==
    IF s.thrown
    THEN [iss |-> s.iss, thrown |-> TRUE, units |-> 1, sections |-> s.sections]
    ELSE [iss |-> s.iss \o requiredSectionIssues(s.types, rel)
                  \o forbiddenNameIssues(data, rel)
                  \o emptyStringIssues(data, rel),
          thrown |-> FALSE, units |-> 1, sections |-> s.sections]

\* r with the Issues `first` recorded ahead of its own.
after(first, r) == [r EXCEPT !.iss = first \o r.iss]

auditData(data, rel) ==
    IF Nullish(data)
    THEN [iss |-> <<>>, thrown |-> TRUE, units |-> 1, sections |-> 0]
    ELSE after(generalFieldIssues(data, rel),
               IF sectionsStop(data, rel) # <<>>
               THEN [iss |-> sectionsStop(data, rel), thrown |-> FALSE,
                     units |-> 1, sections |-> 0]
               ELSE afterSections(
                        auditSections(Get(data, "sections").v, 1, rel),
                        data, rel))

\* auditUnit(filePath): the Issues it pushes, whether it ended in an
\* uncaught exception, and its increments of the two counters.
auditUnit(filePath, file) ==
    LET rel == relPath(filePath)
    IN  IF ~file.ok THEN parseFailure(rel, file) ELSE auditData(file.data, rel)

----------------------------------------------------------------------------
(* Discovery of the unit files.  The data directory is the sequence of the *)
(* entries readdirSync lists, [name, entries]; `entries` lists the names   *)
(* inside a directory entry.                                               *)

IsDigit(c) == \E d \in 0..9 : c = Digit(d)
DigitValue(c) == CHOOSE d \in 0..9 : c = Digit(d)

\* /^\d+$/
AllDigits(s) == Len(s) >= 1 /\ \A k \in 1..Len(s) : IsDigit(s[k])

\* parseInt of a string: its leading decimal digits (NaN, here -1, if none).
RECURSIVE parseIntFrom(_, _, _)
parseIntFrom(s, k, acc) ==
    IF k > Len(s) \/ ~IsDigit(s[k]) THEN acc
    ELSE parseIntFrom(s, k + 1, 10 * acc + DigitValue(s[k]))
parseInt(s) == IF s # <<>> /\ IsDigit(s[1]) THEN parseIntFrom(s, 1, 0) ELSE -1

\* String.prototype.replace with a string pattern: the first occurrence.
replace(s, sub, rep) ==
    IF includes(s, sub)
    THEN LET i == CHOOSE i \in 0..(Len(s) - Len(sub)) :
                     /\ SubSeq(s, i + 1, i + Len(sub)) = sub
                     /\ \A j \in 0..(i - 1) : SubSeq(s, j + 1, j + Len(sub)) # sub
         IN  SubSeq(s, 1, i) \o rep \o SubSeq(s, i + Len(sub) + 1, Len(s))
    ELSE s

\* /^ch\d+$/
isChapterName(d) ==
    startsWith(d, Chars("ch")) /\ AllDigits(SubSeq(d, 3, Len(d)))

\* /^unit\d+\.json$/
isUnitFileName(f) ==
    /\ startsWith(f, Chars("unit"))
    /\ Len(f) >= 10
    /\ SubSeq(f, Len(f) - 4, Len(f)) = Chars(".json")
    /\ AllDigits(SubSeq(f, 5, Len(f) - 5))

chapterNumber(a) == parseInt(replace(a, Chars("ch"), <<>>))

\* The sort key of a unit file read from the first digit alone, which
\* orders the names as a comparison of their characters does.
unitNumberFirstDigit(a) ==
    parseInt(SubSeq(replace(a, Chars("unit"), <<>>), 1, 1))

unitNumber(a) ==
    parseInt(replace(replace(a, Chars("unit"), <<>>), Chars(".json"), <<>>))

\* Array.prototype.sort with the comparator key(a) - key(b): a stable sort
\* of [key, val] records by ascending key.
RECURSIVE insertByKey(_, _)
insertByKey(sorted, e) ==
    IF sorted = <<>> THEN <<e>>
    ELSE IF sorted[Len(sorted)].key <= e.key THEN Append(sorted, e)
    ELSE Append(insertByKey(SubSeq(sorted, 1, Len(sorted) - 1), e),
                sorted[Len(sorted)])
RECURSIVE sortByKey(_)
sortByKey(seq) ==
    IF seq = <<>> THEN <<>>
    ELSE insertByKey(sortByKey(SubSeq(seq, 1, Len(seq) - 1)), seq[Len(seq)])

DATA_DIR == Chars("src/data")

\* path.join
pathJoin(a, b) == a \o <<"/">> \o b

discoverUnitFiles(dir) ==
    LET chs == SelectSeq(dir, LAMBDA e : isChapterName(e.name))
        chapters == sortByKey([k \in 1..Len(chs) |->
                        [key |-> chapterNumber(chs[k].name), val |-> chs[k]]])
        unitsOf(ch) ==
            LET us == SelectSeq(ch.entries, isUnitFileName)
                units == sortByKey([k \in 1..Len(us) |->
                             [key |-> unitNumber(us[k]), val |-> us[k]]])
            IN  [k \in 1..Len(units) |->
                    pathJoin(pathJoin(DATA_DIR, ch.name), units[k].val)]
    IN  Flatten([k \in 1..Len(chapters) |-> unitsOf(chapters[k].val)])

----------------------------------------------------------------------------
(* chapters.ts.  Its text is a sequence of the lexical pieces the two      *)
(* regular expressions of parseChaptersTsRefs tell apart:                  *)
(*   chapterId  `id: <digits>,`      unitsOpen  `units: [`                 *)
(*   unitId     `id: 'unit<digits>'` close      `]`                        *)
(*   other      any other text (an opening bracket included)               *)

Tok(k, text) == [k |-> k, text |-> Chars(text)]

\* The first position >= from holding a piece of kind k (0 if none).
firstToken(content, from, k) ==
    IF \E i \in from..Len(content) : content[i].k = k
    THEN CHOOSE i \in from..Len(content) :
            /\ content[i].k = k
            /\ \A j \in from..(i - 1) : content[j].k # k
    ELSE 0

\* The matches of /id:\s*(\d+),[\s\S]*?units:\s*\[([\s\S]*?)\]/g from
\* lastIndex on, each with the refs of /id:\s*'(unit\d+)'/g in its block.
RECURSIVE chapterMatches(_, _)
chapterMatches(content, lastIndex) ==
    LET i == firstToken(content, lastIndex, "chapterId")
        j == IF i = 0 THEN 0 ELSE firstToken(content, i + 1, "unitsOpen")
        l == IF j = 0 THEN 0 ELSE firstToken(content, j + 1, "close")
    IN  IF l = 0 THEN <<>>
        ELSE LET chapterId  == parseInt(content[i].text)
                 unitsBlock == SelectSeq(SubSeq(content, j + 1, l - 1),
                                         LAMBDA tk : tk.k = "unitId")
             IN  [u \in 1..Len(unitsBlock) |->
                     [chapterId |-> chapterId, unitId |-> unitsBlock[u].text]]
                 \o chapterMatches(content, l + 1)

parseChaptersTsRefs(content) == chapterMatches(content, 1)

----------------------------------------------------------------------------
(* Cross-reference chapters.ts vs actual files *)

\* The elements of a Set built from a sequence, in insertion order.
RECURSIVE setOf(_)
setOf(seq) ==
    IF seq = <<>> THEN <<>>
    ELSE LET init == setOf(SubSeq(seq, 1, Len(seq) - 1))
         IN  IF \E k \in 1..Len(init) : init[k] = seq[Len(seq)]
             THEN init ELSE Append(init, seq[Len(seq)])

Has(set, x) == \E k \in 1..Len(set) : set[k] = x

\* String.prototype.split(path.sep)
RECURSIVE split(_, _)
split(s, sep) ==
    IF \E k \in 1..Len(s) : s[k] = sep
    THEN LET k == CHOOSE k \in 1..Len(s) :
                     s[k] = sep /\ \A j \in 1..(k - 1) : s[j] # sep
         IN  <<SubSeq(s, 1, k - 1)>> \o split(SubSeq(s, k + 1, Len(s)), sep)
    ELSE <<s>>

\* Lines 406-412
tsSetOf(refs) ==
    setOf([k \in 1..Len(refs) |->
              Chars("ch") \o NatToString(refs[k].chapterId) \o <<"/">>
              \o refs[k].unitId])
actualSetOf(actualFiles) ==
    setOf([k \in 1..Len(actualFiles) |->
              LET parts == split(actualFiles[k], "/")
              IN  parts[Len(parts) - 1] \o <<"/">>
                  \o replace(parts[Len(parts)], Chars(".json"), <<>>)])

\* Lines 417-422
missingFileLines(tsSet, actualSet) ==
    LET m == SelectSeq(tsSet, LAMBDA ref : ~Has(actualSet, ref))
    IN  [k \in 1..Len(m) |->
            Chars("  [MISSING FILE] ") \o m[k]
            \o Chars(".json is referenced in chapters.ts but file does not exist!")]

\* Lines 425-430
orphanFileLines(tsSet, actualSet) ==
    LET m == SelectSeq(actualSet, LAMBDA actual : ~Has(tsSet, actual))
    IN  [k \in 1..Len(m) |->
            Chars("  [ORPHAN FILE] ") \o m[k]
            \o Chars(".json exists but is NOT referenced in chapters.ts!")]

\* crossReferenceChapters(): the lines it prints and the count it returns.
crossReferenceChapters(content, dir) ==
    LET tsSet     == tsSetOf(parseChaptersTsRefs(content))
        actualSet == actualSetOf(discoverUnitFiles(dir))
        missing   == missingFileLines(tsSet, actualSet)
        orphan    == orphanFileLines(tsSet, actualSet)
        count     == Len(missing) + Len(orphan)
    IN  [lines |->
            <<Chars("CROSS-REFERENCE: chapters.ts vs actual JSON files")>>
            \o missing \o orphan
            \o <<Chars("  chapters.ts references: ")
                   \o NatToString(Len(tsSet)) \o Chars(" units"),
                 Chars("  Actual JSON files:      ")
                   \o NatToString(Len(actualSet)) \o Chars(" files"),
                 IF count = 0
                 THEN Chars("  RESULT: PASS -- All references match actual files.")
                 ELSE Chars("  RESULT: FAIL -- ") \o NatToString(count)
                      \o Chars(" cross-reference issue(s) found.")>>,
         crossIssues |-> count]

----------------------------------------------------------------------------
(* Unit documents *)

\* An object literal; a property whose value is JUndef is absent.
Obj(pairs) ==
    LET present == SelectSeq(pairs, LAMBDA p : p[2] # JUndef)
    IN  JObj([k \in 1..Len(present) |-> <<Chars(present[k][1]), present[k][2]>>])

ForbiddenCn == JStr(<<"x", Hei, Ki>>)
ForbiddenJp == JStr(<<Kuro, Ki, "x">>)

VocabItem(japanese, example, exampleChinese) ==
    Obj(<< <<"japanese", japanese>>, <<"reading", JS("a")>>,
           <<"romaji", JS("a")>>, <<"chinese", JS("c")>>,
           <<"example", example>>, <<"exampleChinese", exampleChinese>> >>)
VocabSection(items) ==
    Obj(<< <<"type", JS("vocab")>>, <<"title", JS("V")>>, <<"items", items>> >>)

DialogueLine == Obj(<< <<"speaker", JS("p")>>, <<"japanese", JS("A")>>,
                       <<"chinese", JS("c")>> >>)
DialogueSection(scene, lines) ==
    Obj(<< <<"type", JS("dialogue")>>, <<"title", JS("D")>>,
           <<"scene", scene>>, <<"lines", lines>> >>)

GrammarPoint(examples) ==
    Obj(<< <<"pattern", JS("p")>>, <<"meaning", JS("m")>>,
           <<"structure", JS("s")>>, <<"examples", examples>> >>)
GrammarExample(japanese) ==
    Obj(<< <<"japanese", japanese>>, <<"chinese", JS("c")>> >>)
GrammarSection(points) ==
    Obj(<< <<"type", JS("grammar")>>, <<"title", JS("G")>>,
           <<"points", points>> >>)

Card(japanese, front) ==
    Obj(<< <<"japanese", japanese>>, <<"reading", JS("a")>>,
           <<"romaji", JS("a")>>, <<"chinese", JS("c")>>,
           <<"front", front>> >>)
FlashcardsSection(cards) ==
    Obj(<< <<"type", JS("flashcards")>>, <<"title", JS("F")>>,
           <<"cards", cards>> >>)

Options(n) == JArr([k \in 1..n |-> JS("o")])
Question(question, options, correct, explanation) ==
    Obj(<< <<"question", question>>, <<"options", options>>,
           <<"correct", correct>>, <<"explanation", explanation>> >>)
QuizSection(questions) ==
    Obj(<< <<"type", JS("quiz")>>, <<"title", JS("Q")>>,
           <<"questions", questions>> >>)

CultureSection(content) ==
    Obj(<< <<"type", JS("culture")>>, <<"title", JS("C")>>,
           <<"content", content>> >>)

GoodVocab      == VocabSection(JArr(<<VocabItem(JS("A"), JS("e"), JS("x"))>>))
GoodDialogue   == DialogueSection(JS("s"), JArr(<<DialogueLine>>))
GoodGrammar    ==
    GrammarSection(JArr(<<GrammarPoint(JArr(<<GrammarExample(JS("A"))>>))>>))
GoodFlashcards == FlashcardsSection(JArr(<<Card(JS("A"), JUndef)>>))
GoodQuiz       ==
    QuizSection(JArr(<<Question(JS("q"), Options(4), JNum(2), JS("e"))>>))
GoodCulture    == CultureSection(JS("t"))

Unit(title, intro, estimatedTime, sections) ==
    Obj(<< <<"id", JS("unit1")>>, <<"title", title>>, <<"intro", intro>>,
           <<"estimatedTime", estimatedTime>>, <<"sections", sections>> >>)

UnitOf(sections) == Unit(JS("T"), JS("I"), JS("5"), JArr(sections))

GoodUnit ==
    UnitOf(<<GoodVocab, GoodDialogue, GoodGrammar, GoodFlashcards, GoodQuiz>>)

----------------------------------------------------------------------------
(* Bounds and inputs of the run *)

MaxFiles == 2          \* unit files on disk, refs in chapters.ts

ChapterIds == {1, 2}
UnitIds    == {1, 2}

\* The unit files a run reads.
RunDocs ==
    {FileError("Unexpected end of JSON input"),
     FileJson(UnitOf(<<GoodVocab, GoodDialogue, GoodGrammar, GoodFlashcards,
                       GoodQuiz>>)),
     FileJson(UnitOf(<<GoodVocab, GoodQuiz, JNull>>)),
     FileJson(JNull),
     FileJson(Unit(JUndef, JS("I"), JS("5"), JArr(<<>>))),
     FileJson(UnitOf(<<VocabSection(JArr(<<>>)), GoodFlashcards>>))}

\* unitsPer[c] = n: chapter c holds (or lists) unit1 .. unit<n>.
Shapes ==
    {sh \in [ChapterIds -> 0..Cardinality(UnitIds)] :
        /\ sh[1] + sh[2] <= MaxFiles
        /\ sh[1] = 0 => sh[2] = 0}

\* A listing of src/data: chapters.ts, then the chapter directories from
\* the last to the first, each listing its unit files from the last to the
\* first after a file that is not a unit.
DirOf(sh) ==
    LET chs == SelectSeq(<<2, 1>>, LAMBDA c : sh[c] > 0 \/ c = 1)
    IN  <<[name |-> Chars("chapters.ts"), entries |-> <<>>]>>
        \o [k \in 1..Len(chs) |->
              [name |-> Chars("ch") \o NatToString(chs[k]),
               entries |-> <<Chars("notes.txt")>>
                   \o [u \in 1..sh[chs[k]] |->
                         Chars("unit") \o NatToString(sh[chs[k]] + 1 - u)
                         \o Chars(".json")]]]

\* The text of a chapters.ts with the chapters in order, each with its units.
RECURSIVE ManifestFrom(_, _)
ManifestFrom(sh, c) ==
    IF c > 2 \/ (sh[c] = 0 /\ c > 1) THEN <<>>
    ELSE <<Tok("other", "{"), [k |-> "chapterId", text |-> NatToString(c)],
           Tok("other", "title"), Tok("unitsOpen", "")>>
         \o Flatten([u \in 1..sh[c] |->
                <<Tok("other", "{"),
                  [k |-> "unitId", text |-> Chars("unit") \o NatToString(u)],
                  Tok("other", "}")>>])
         \o <<Tok("close", ""), Tok("other", "}")>>
         \o ManifestFrom(sh, c + 1)

DataDirs  == {DirOf(sh) : sh \in Shapes}
Manifests == {ManifestFrom(sh, 1) : sh \in Shapes}

----------------------------------------------------------------------------
(* The run *)

Init == /\ pc = "start"
        /\ dataDir \in DataDirs
        /\ chaptersTs \in Manifests
        /\ unitFiles = <<>>
        /\ next = 1
        /\ reads = <<>>
        /\ issues = <<>>
        /\ totalUnitsChecked = 0
        /\ totalSectionsChecked = 0
        /\ crossIssues = 0
        /\ out = <<>>
        /\ QuizUnmounted
        /\ FlashcardUnmounted

\* Lines 453-454
Discover ==
    /\ pc = "start"
    /\ unitFiles' = discoverUnitFiles(dataDir)
    /\ out' = out \o <<Chars("Discovered ")
                       \o NatToString(Len(discoverUnitFiles(dataDir)))
                       \o Chars(" unit JSON files across ch1-ch8.")>>
    /\ pc' = "audit"
    /\ UNCHANGED <<dataDir, chaptersTs, next, reads, issues, totalUnitsChecked,
                   totalSectionsChecked, crossIssues,
                   quizVars, flashcardVars>>

\* Lines 456-458: one iteration of the loop, auditUnit(f) on a file whose
\* content is one of `docs`; r is what auditUnit did.  An exception leaving
\* auditUnit ends the script.
Audited(file, r) ==
    /\ issues' = issues \o r.iss
    /\ totalUnitsChecked' = totalUnitsChecked + r.units
    /\ totalSectionsChecked' = totalSectionsChecked + r.sections
    /\ reads' = Append(reads, [file |-> file, thrown |-> r.thrown])
    /\ pc' = IF r.thrown THEN "crashed" ELSE "audit"

AuditFrom(docs) ==
    /\ pc = "audit"
    /\ next <= Len(unitFiles)
    /\ \E file \in docs : Audited(file, auditUnit(unitFiles[next], file))
    /\ next' = next + 1
    /\ UNCHANGED <<dataDir, chaptersTs, unitFiles, crossIssues, out,
                   quizVars, flashcardVars>>

Audit == AuditFrom(RunDocs)

\* Line 461
CrossReference ==
    /\ pc = "audit"
    /\ next > Len(unitFiles)
    /\ LET r == crossReferenceChapters(chaptersTs, dataDir)
       IN  /\ crossIssues' = r.crossIssues
           /\ out' = out \o r.lines
    /\ pc' = "report"
    /\ UNCHANGED <<dataDir, chaptersTs, unitFiles, next, reads, issues,
                   totalUnitsChecked, totalSectionsChecked,
                   quizVars, flashcardVars>>

\* Lines 465-474: the totals (the grouped listing of the Issues that follows
\* them, lines 476-502, is a rendering of `issues` and is not kept in `out`).
Report ==
    /\ pc = "report"
    /\ out' = out \o
         <<Chars("AUDIT RESULTS"),
           Chars("Total units checked:    ") \o NatToString(totalUnitsChecked),
           Chars("Total sections checked: ") \o NatToString(totalSectionsChecked),
           Chars("Total issues found:     ") \o NatToString(Len(issues))>>
         \o (IF Len(issues) = 0 /\ crossIssues = 0
             THEN <<Chars("ALL CHECKS PASSED. No issues found.")>>
             ELSE <<>>)
    /\ pc' = "verdict"
    /\ UNCHANGED <<dataDir, chaptersTs, unitFiles, next, reads, issues,
                   totalUnitsChecked, totalSectionsChecked, crossIssues,
                   quizVars, flashcardVars>>

\* The total without the cross-reference findings.
totalProblemsIssuesOnly(iss, cross) == Len(iss)

\* Line 507
totalProblems(iss, cross) == Len(iss) + cross

\* Lines 505-513
Verdict ==
    /\ pc = "verdict"
    /\ out' = out \o
         <<IF totalProblems(issues, crossIssues) = 0
           THEN Chars("VERDICT: PASS")
           ELSE Chars("VERDICT: FAIL (")
                \o NatToString(totalProblems(issues, crossIssues))
                \o Chars(" total problem(s))")>>
    /\ pc' = "done"
    /\ UNCHANGED <<dataDir, chaptersTs, unitFiles, next, reads, issues,
                   totalUnitsChecked, totalSectionsChecked, crossIssues,
                   quizVars, flashcardVars>>

Next == Discover \/ Audit \/ CrossReference \/ Report \/ Verdict

Spec == Init /\ [][Next]_vars

----------------------------------------------------------------------------
(* Inputs of auditUnit: families of decoded unit documents, each varying   *)
(* one part of GoodUnit.                                                   *)

MaxCards   == 2        \* cards of a varied flashcards section
MaxOptions == 5        \* options of a varied quiz question
MaxCorrect == 4        \* largest `correct` of a varied quiz question

GoodSections ==
    <<GoodVocab, GoodDialogue, GoodGrammar, GoodFlashcards, GoodQuiz>>

\* GoodUnit with the section at position k replaced.
WithSection(k, section) == UnitOf([GoodSections EXCEPT ![k] = section])

\* Values that are not a document at all, and the top-level fields.
TopLevelDocs ==
    {JNull, JNum(5), JS("x"), JBool(TRUE), JArr(<<>>), JArr(<<JS("")>>)}
    \cup
    {Obj(<< <<"id", JS("unit1")>>, <<"title", title>>, <<"intro", intro>>,
            <<"estimatedTime", time>>, <<"sections", sections>>, extra >>) :
        title \in {JUndef, JNull, JS(""), JS("T"), ForbiddenJp},
        intro \in {JUndef, JS(""), JS("I")},
        time \in {JUndef, JS("5")},
        sections \in {JUndef, JNull, JArr(<<>>), JS("x"),
                      Obj(<< <<"a", JS("")>> >>),
                      JArr(GoodSections),
                      JArr(<<Obj(<< <<"title", JS("")>> >>)>>),
                      JArr(<<JNum(5)>>),
                      JArr(<<Obj(<< <<"type", JS("video")>> >>)>>)},
        extra \in {<<"note", JUndef>>, <<"note", JS("")>>,
                   <<"sectionsNote", JS("")>>,
                   <<"meta", Obj(<< <<"by", ForbiddenCn>> >>)>>}}

\* Which of the six section types a unit carries.
SectionSubsetDocs ==
    {UnitOf(SelectSeq(GoodSections \o <<GoodCulture>>,
                      LAMBDA sec : Get(sec, "type") \in types)) :
        types \in SUBSET {JS("vocab"), JS("dialogue"), JS("grammar"),
                          JS("flashcards"), JS("quiz"), JS("culture")}}

\* Section types that repeat, that are not a string, that are unknown.
RepeatedSectionDocs ==
    {UnitOf(<<GoodVocab, GoodVocab>>),
     UnitOf(<<GoodCulture>>),
     UnitOf(<<GoodQuiz, GoodCulture, GoodQuiz, GoodCulture>>),
     UnitOf(<<GoodQuiz, Obj(<< <<"type", JArr(<<JS("vocab")>>)>> >>)>>),
     UnitOf(<<GoodGrammar, Obj(<< <<"type", JS("Vocab")>> >>), JNum(5)>>),
     UnitOf(<<VocabSection(JUndef), Obj(<< <<"type", JS("")>> >>)>>)}

VocabItems ==
    {Obj(<< <<"japanese", j>>, <<"reading", r>>, <<"romaji", ro>>,
            <<"chinese", c>>, <<"example", e>>, <<"exampleChinese", ec>> >>) :
        j \in {JUndef, JNull, JS("A")}, r \in {JUndef, JS("a")},
        ro \in {JUndef, JS("a")}, c \in {JUndef, JS("c")},
        e \in {JUndef, JS("e")}, ec \in {JUndef, JS("x")}}
VocabDocs ==
    {WithSection(1, VocabSection(items)) :
        items \in {JUndef, JNull, JNum(0), JS("x"), Obj(<<>>), JArr(<<>>),
                   JArr(<<JNull>>), JArr(<<JNum(5)>>),
                   JArr(<<VocabItem(JS("A"), JUndef, JUndef),
                          VocabItem(JUndef, JS("e"), JUndef)>>)}
                  \cup {JArr(<<item>>) : item \in VocabItems}}

DialogueLines ==
    {Obj(<< <<"speaker", sp>>, <<"japanese", j>>, <<"chinese", c>> >>) :
        sp \in {JUndef, JS("p")}, j \in {JUndef, JS("A")},
        c \in {JUndef, JNull, JS("c")}}
DialogueDocs ==
    {WithSection(2, DialogueSection(scene, lines)) :
        scene \in {JUndef, JNull, JNum(0), JS(""), JS("s")},
        lines \in {JUndef, JS("x"), JArr(<<>>), JArr(<<JNull>>),
                   JArr(<<DialogueLine, Obj(<< <<"speaker", JS("p")>> >>)>>)}
                  \cup {JArr(<<line>>) : line \in DialogueLines}}

GrammarPoints ==
    {Obj(<< <<"pattern", p>>, <<"meaning", m>>, <<"structure", st>>,
            <<"examples", ex>> >>) :
        p \in {JUndef, JS("p")}, m \in {JUndef, JS("m")},
        st \in {JUndef, JS("s")},
        ex \in {JUndef, JS("x"), JArr(<<>>),
                JArr(<<GrammarExample(JS("A"))>>),
                JArr(<<GrammarExample(JS(""))>>),
                JArr(<<GrammarExample(ForbiddenJp)>>)}}
GrammarDocs ==
    {WithSection(3, GrammarSection(points)) :
        points \in {JUndef, JS("x"), JArr(<<>>), JArr(<<JNull>>)}
                   \cup {JArr(<<pt>>) : pt \in GrammarPoints}}

Cards ==
    {Card(j, f) :
        j \in {JUndef, JS(""), JS("A"), JS("B"), JS("constructor")},
        f \in {JUndef, JS("A")}}
RECURSIVE CardLists(_)
CardLists(n) ==
    IF n = 0 THEN {<<>>}
    ELSE CardLists(n - 1)
         \cup {Append(l, c) : l \in {x \in CardLists(n - 1) : Len(x) = n - 1},
                              c \in Cards}
\* Cards in the old and in the current shape, with any of the fields absent.
CardOf(japanese, reading, romaji, chinese, front, back) ==
    Obj(<< <<"japanese", japanese>>, <<"reading", reading>>,
           <<"romaji", romaji>>, <<"chinese", chinese>>,
           <<"front", front>>, <<"back", back>> >>)
LegacyCards ==
    {CardOf(j, r, ro, c, f, b) :
        j \in {JUndef, JS("A")}, r \in {JUndef, JS("a")},
        ro \in {JUndef, JNull, JS("a")}, c \in {JUndef, JS("c")},
        f \in {JUndef, JNull, JS("F")}, b \in {JUndef, JS("")}}
LegacyCardDocs ==
    {WithSection(4, FlashcardsSection(JArr(<<card>>))) : card \in LegacyCards}
    \cup
    {WithSection(4, FlashcardsSection(JArr(<<Card(JS("A"), JUndef), card>>))) :
        card \in {CardOf(JUndef, JUndef, JS("a"), JS("c"), JS("F"), JS("B")),
                  CardOf(JS("B"), JS("a"), JS("a"), JS("c"), JUndef, JS("B")),
                  CardOf(JS("B"), JUndef, JS("a"), JS("c"), JUndef, JUndef)}}

FlashcardDocs ==
    {WithSection(4, FlashcardsSection(cards)) :
        cards \in {JUndef, JS("x"), JArr(<<JNull>>)}
                  \cup {JArr(l) : l \in CardLists(MaxCards)}}

Corrects ==
    {JUndef, JNull, JS("2"), JBool(TRUE)}
    \cup {JHalf(n2) : n2 \in (0 - 2)..(2 * MaxCorrect + 1)}
Questions ==
    {Question(question, options, correct, explanation) :
        question \in {JUndef, JS("q")},
        options \in {JUndef, JS("x")} \cup {Options(n) : n \in 0..MaxOptions},
        correct \in Corrects,
        explanation \in {JUndef, JS("e")}}
QuizDocs ==
    {WithSection(5, QuizSection(questions)) :
        questions \in {JUndef, JS("x"), JArr(<<>>), JArr(<<JNull>>),
                       JArr(<<Question(JS("q"), Options(4), JNum(0), JS("e")),
                              Question(JS("r"), Options(3), JNum(4), JS("e"))>>)}
                      \cup {JArr(<<q>>) : q \in Questions}}

CultureDocs ==
    {UnitOf(GoodSections \o <<CultureSection(content)>>) :
        content \in {JUndef, JNull, JNum(0), JS(""), JS("t"), ForbiddenCn}}

\* Strings at every depth: a section title, an option of a question, an
\* element of a list no validator reads, a value of a nested mapping.
StringValues == {JS("t"), JS(""), ForbiddenCn, ForbiddenJp}
DeepStringDocs ==
    {UnitOf(<<GoodVocab, GoodDialogue, GoodGrammar, GoodFlashcards,
              Obj(<< <<"type", JS("quiz")>>, <<"title", a>>,
                     <<"questions",
                       JArr(<<Question(JS("q"),
                                JArr(<<JS("o"), b, JS("o"), JS("o")>>),
                                JNum(1), JS("e"))>>)>>,
                     <<"tips", JArr(<<JS("t"), c>>)>>,
                     <<"extra", Obj(<< <<"deep",
                                         JArr(<<Obj(<< <<"er", d>> >>)>>)>> >>)>>
                  >>)>>) :
        a \in StringValues, b \in StringValues, c \in StringValues,
        d \in StringValues}

UnitDocs ==
    TopLevelDocs \cup SectionSubsetDocs \cup VocabDocs \cup DialogueDocs
    \cup GrammarDocs \cup FlashcardDocs \cup QuizDocs \cup CultureDocs
    \cup DeepStringDocs \cup LegacyCardDocs \cup RepeatedSectionDocs

\* The state after discovery of a data directory with one unit file.
InitUnit ==
    /\ pc = "audit"
    /\ dataDir = DirOf([c \in ChapterIds |-> IF c = 1 THEN 1 ELSE 0])
    /\ chaptersTs = ManifestFrom([c \in ChapterIds |-> IF c = 1 THEN 1 ELSE 0], 1)
    /\ unitFiles = discoverUnitFiles(dataDir)
    /\ next = 1
    /\ reads = <<>>
    /\ issues = <<>>
    /\ totalUnitsChecked = 0
    /\ totalSectionsChecked = 0
    /\ crossIssues = 0
    /\ out = <<Chars("Discovered 1 unit JSON files across ch1-ch8.")>>
    /\ QuizUnmounted
    /\ FlashcardUnmounted

AuditDocument == AuditFrom({FileJson(d) : d \in UnitDocs})

NextUnit == AuditDocument

SpecUnit == InitUnit /\ [][NextUnit]_vars

----------------------------------------------------------------------------
(* Inputs of discoverUnitFiles, parseChaptersTsRefs and                    *)
(* crossReferenceChapters: directory listings in every order, manifests    *)
(* with their chapter blocks and unit entries in every order.              *)

MaxEntries == 3        \* names in one directory listing
MaxBlocks  == 2        \* chapter blocks of a manifest
MaxUnits   == 2        \* unit entries of a chapter block

\* The sequences of at most n elements of S.
RECURSIVE SeqsUpTo(_, _)
SeqsUpTo(S, n) ==
    IF n = 0 THEN {<<>>}
    ELSE SeqsUpTo(S, n - 1)
         \cup {Append(q, x) : q \in {y \in SeqsUpTo(S, n - 1) : Len(y) = n - 1},
                              x \in S}

\* Those of them that hold no element twice: the orders in which readdirSync
\* can list at most n of the names S.
Listings(S, n) ==
    {q \in SeqsUpTo(S, n) :
        \A a \in 1..Len(q) : \A b \in 1..Len(q) : q[a] = q[b] => a = b}

ChapterNames ==
    {Chars("ch1"), Chars("ch2"), Chars("ch10"), Chars("ch01"),
     Chars("ch"), Chars("ch1x"), Chars("chapters.ts")}
UnitFileNames ==
    {Chars("unit1.json"), Chars("unit2.json"), Chars("unit9.json"),
     Chars("unit10.json"), Chars("unit01.json"), Chars("unit.json"),
     Chars("unit1.json.bak"), Chars("unit1.txt"), Chars("xunit1.json")}

\* src/data listed in any order, every entry holding unit2.json and
\* unit1.json; ch1 alone with its files listed in any order; two chapters
\* whose names carry the same number.
OrderingDirs ==
    {[k \in 1..Len(l) |->
         [name |-> l[k],
          entries |-> <<Chars("unit2.json"), Chars("unit1.json")>>]] :
        l \in Listings(ChapterNames, MaxEntries)}
    \cup
    {<<[name |-> Chars("chapters.ts"), entries |-> <<>>],
       [name |-> Chars("ch1"), entries |-> l]>> :
        l \in Listings(UnitFileNames, MaxEntries)}
    \cup
    {<<[name |-> Chars("ch1"), entries |-> <<Chars("unit2.json")>>],
       [name |-> Chars("ch01"), entries |-> <<Chars("unit1.json")>>]>>}

\* One unit entry of a units list: `{ id: 'unit<N>', ... }`, with or
\* without a bracketed list among its fields.
UnitEntry(id, bracketed) ==
    <<Tok("other", "{"), [k |-> "unitId", text |-> id]>>
    \o (IF bracketed
        THEN <<Tok("other", "tags: ["), Tok("other", "'a'"), Tok("close", "")>>
        ELSE <<>>)
    \o <<Tok("other", "}")>>

\* One chapter block: `{ id: <N>, title: ..., units: [ <entries> ] }`.
ChapterBlock(id, entries) ==
    <<Tok("other", "{"), [k |-> "chapterId", text |-> NatToString(id)],
      Tok("other", "title"), Tok("unitsOpen", "")>>
    \o Flatten(entries)
    \o <<Tok("close", ""), Tok("other", "}")>>

ManifestOf(blocks) ==
    <<Tok("other", "export const chapters = [")>> \o Flatten(blocks)
    \o <<Tok("close", "")>>

PlainEntries == {UnitEntry(Chars("unit1"), FALSE), UnitEntry(Chars("unit2"), FALSE)}
BracketedEntries == {UnitEntry(Chars("unit1"), TRUE)}

\* The units list of a chapter block after the first one.
LaterUnits == {<<>>, <<UnitEntry(Chars("unit1"), FALSE)>>}

\* Manifests of at most MaxBlocks chapter blocks, their ids in any order
\* and any number of times; the first block lists at most MaxUnits of
\* `entries`, in any order and any number of times.
ManifestsOver(entries) ==
    {ManifestOf(<<>>)}
    \cup
    UNION {{ManifestOf(<<ChapterBlock(ids[1], es)>>
                       \o [k \in 1..(Len(ids) - 1) |->
                             ChapterBlock(ids[k + 1], later[k])]) :
               es \in SeqsUpTo(entries, MaxUnits),
               later \in [1..(Len(ids) - 1) -> LaterUnits]} :
           ids \in {q \in SeqsUpTo(ChapterIds, MaxBlocks) : Len(q) >= 1}}

\* Manifests whose unit entries are plain.
PlainManifests == ManifestsOver(PlainEntries)

\* Manifests some of whose unit entries hold a bracketed list.
BracketedManifests == ManifestsOver(PlainEntries \cup BracketedEntries)

\* The unit files on disk: at most MaxFiles of these.
Placements ==
    {<<Chars("ch1"), Chars("unit1.json")>>, <<Chars("ch1"), Chars("unit2.json")>>,
     <<Chars("ch2"), Chars("unit1.json")>>, <<Chars("ch01"), Chars("unit1.json")>>}

\* src/data holding the files `placed`.
DirWith(placed) ==
    LET names == SelectSeq(<<Chars("ch2"), Chars("ch01"), Chars("ch1")>>,
                           LAMBDA d : \E pl \in placed : pl[1] = d)
    IN  <<[name |-> Chars("chapters.ts"), entries |-> <<>>]>>
        \o [k \in 1..Len(names) |->
              [name |-> names[k],
               entries |-> SelectSeq(<<Chars("unit2.json"), Chars("unit1.json")>>,
                                     LAMBDA f : <<names[k], f>> \in placed)]]

PlacedDirs ==
    {DirWith(placed) : placed \in {pl \in SUBSET Placements :
                                      Cardinality(pl) <= MaxFiles}}

InitFiles ==
    /\ pc = "start"
    /\ \/ /\ dataDir \in OrderingDirs
          /\ chaptersTs = ManifestOf(<<ChapterBlock(1, <<UnitEntry(Chars("unit1"), FALSE)>>)>>)
       \/ /\ dataDir = DirWith({<<Chars("ch1"), Chars("unit1.json")>>})
          /\ chaptersTs \in BracketedManifests
       \/ /\ dataDir \in PlacedDirs
          /\ chaptersTs \in PlainManifests
    /\ unitFiles = <<>>
    /\ next = 1
    /\ reads = <<>>
    /\ issues = <<>>
    /\ totalUnitsChecked = 0
    /\ totalSectionsChecked = 0
    /\ crossIssues = 0
    /\ out = <<>>
    /\ QuizUnmounted
    /\ FlashcardUnmounted

\* The loop over the unit files, each holding a unit with no fault.
AuditGood == AuditFrom({FileJson(GoodUnit)})

NextFiles == Discover \/ AuditGood \/ CrossReference

SpecFiles == InitFiles /\ [][NextFiles]_vars

----------------------------------------------------------------------------
(* Quiz.tsx.  A handler runs on the state of the latest render: preact     *)
(* renders in a microtask after the handler that set state, ahead of the   *)
(* next event.  Each action is one handler with the render that follows.   *)

MaxQuestions == 3      \* questions of a quiz

\* Schema of a question: four options, `correct` one of their indices.
OptionIndices == 0..3

\* The record nextQuestion stores under unitId.
progressEntry(quizScore) == <<[completed |-> TRUE, quizScore |-> quizScore]>>

\* Lines 16-20, with the props of the mount.  (An empty questions list
\* makes the first render throw on q.question, line 128: no widget.)
InitQuiz ==
    /\ pc = "site"
    /\ dataDir = <<>>
    /\ chaptersTs = <<>>
    /\ unitFiles = <<>>
    /\ next = 1
    /\ reads = <<>>
    /\ issues = <<>>
    /\ totalUnitsChecked = 0
    /\ totalSectionsChecked = 0
    /\ crossIssues = 0
    /\ out = <<>>
    /\ quizQuestions \in {q \in SeqsUpTo({0, 3}, MaxQuestions) : Len(q) >= 1}
    /\ unitId \in BOOLEAN
    /\ storage \in BOOLEAN
    /\ progress = <<>>
    /\ currentQ = 0
    /\ selected = Null
    /\ score = 0
    /\ showResult = FALSE
    /\ answered = FALSE
    /\ FlashcardUnmounted

\* const q = questions[currentQ]; the `correct` of q.
qCorrect == quizQuestions[currentQ + 1]
quizTotal == Len(quizQuestions)

\* handleSelect without its first line.
handleSelectUnguarded(index) ==
    /\ selected' = index
    /\ answered' = TRUE
    /\ score' = IF index = qCorrect THEN score + 1 ELSE score

\* Lines 25-32
handleSelect(index) ==
    IF answered
    THEN UNCHANGED <<selected, answered, score>>
    ELSE /\ selected' = index
         /\ answered' = TRUE
         /\ score' = IF index = qCorrect THEN score + 1 ELSE score

\* A click on an option button (lines 154-160), rendered on the question
\* screen.
QuizSelect ==
    /\ pc = "site"
    /\ quizTotal > 0
    /\ ~showResult
    /\ \E index \in OptionIndices : handleSelect(index)
    /\ UNCHANGED <<auditVars, flashcardVars, quizQuestions, unitId, storage,
                   progress, currentQ, showResult>>

\* Lines 34-49, from a click on the Next button, which is rendered on the
\* question screen once the question is answered (lines 183-191).
QuizNext ==
    /\ pc = "site"
    /\ quizTotal > 0
    /\ ~showResult
    /\ answered
    /\ IF currentQ < quizTotal - 1
       THEN /\ currentQ' = currentQ + 1
            /\ selected' = Null
            /\ answered' = FALSE
            /\ UNCHANGED <<showResult, progress>>
       ELSE /\ showResult' = TRUE
            /\ progress' =
                 IF unitId /\ storage
                 THEN progressEntry(score + (IF selected = qCorrect THEN 1 ELSE 0))
                 ELSE progress
            /\ UNCHANGED <<currentQ, selected, answered>>
    /\ UNCHANGED <<auditVars, flashcardVars, quizQuestions, unitId, storage,
                   score>>

\* Lines 51-57, from a click on the restart button of the result screen.
QuizRestart ==
    /\ pc = "site"
    /\ showResult
    /\ currentQ' = 0
    /\ selected' = Null
    /\ score' = 0
    /\ showResult' = FALSE
    /\ answered' = FALSE
    /\ UNCHANGED <<auditVars, flashcardVars, quizQuestions, unitId, storage,
                   progress>>

NextQuiz == QuizSelect \/ QuizNext \/ QuizRestart

SpecQuiz == InitQuiz /\ [][NextQuiz]_vars

----------------------------------------------------------------------------
(* Flashcard.tsx.  Each action is one event handler, or one setTimeout     *)
(* callback, with the render that follows it.  The callbacks all have the  *)
(* same delay, so they run in the order they were scheduled.               *)

MaxDeck   == 3         \* cards of a deck
MaxTimers == 2         \* setTimeout callbacks pending at once

\* clientX of a touch; a swipe is a move of more than 50.
TouchXs == {0, 40, 100}
SwipeThreshold == 50

\* Lines 15-17, with the props of the mount (at least one card).
InitFlashcard ==
    /\ pc = "site"
    /\ dataDir = <<>>
    /\ chaptersTs = <<>>
    /\ unitFiles = <<>>
    /\ next = 1
    /\ reads = <<>>
    /\ issues = <<>>
    /\ totalUnitsChecked = 0
    /\ totalSectionsChecked = 0
    /\ crossIssues = 0
    /\ out = <<>>
    /\ QuizUnmounted
    /\ deckCards \in 1..MaxDeck
    /\ currentIndex = 0
    /\ isFlipped = FALSE
    /\ touchStart = Null
    /\ timers = <<>>

\* const total = cards.length
deckTotal == deckCards

\* goNext without its test of currentIndex.
goNextUnguarded ==
    /\ isFlipped' = FALSE
    /\ timers' = Append(timers, currentIndex + 1)

\* Lines 22-27: the callback captures currentIndex + 1.
goNext ==
    IF currentIndex < deckTotal - 1
    THEN /\ isFlipped' = FALSE
         /\ timers' = Append(timers, currentIndex + 1)
    ELSE UNCHANGED <<isFlipped, timers>>

\* Lines 29-34: the callback captures currentIndex - 1.
goPrev ==
    IF currentIndex > 0
    THEN /\ isFlipped' = FALSE
         /\ timers' = Append(timers, currentIndex - 1)
    ELSE UNCHANGED <<isFlipped, timers>>

\* Lines 120-122: the next button, disabled on the last card.
ClickNext ==
    /\ pc = "site"
    /\ deckCards > 0
    /\ currentIndex # deckTotal - 1
    /\ Len(timers) < MaxTimers
    /\ goNext
    /\ UNCHANGED <<auditVars, quizVars, deckCards, currentIndex, touchStart>>

\* Lines 107-109: the previous button, disabled on the first card.
ClickPrev ==
    /\ pc = "site"
    /\ deckCards > 0
    /\ currentIndex # 0
    /\ Len(timers) < MaxTimers
    /\ goPrev
    /\ UNCHANGED <<auditVars, quizVars, deckCards, currentIndex, touchStart>>

\* Lines 36-38
handleTouchStart ==
    /\ pc = "site"
    /\ deckCards > 0
    /\ \E clientX \in TouchXs : touchStart' = clientX
    /\ UNCHANGED <<auditVars, quizVars, deckCards, currentIndex, isFlipped,
                   timers>>

\* Lines 40-48
handleTouchEnd ==
    /\ pc = "site"
    /\ deckCards > 0
    /\ Len(timers) < MaxTimers
    /\ \E clientX \in TouchXs :
          IF touchStart = Null
          THEN UNCHANGED <<touchStart, isFlipped, timers>>
          ELSE LET diff == touchStart - clientX
               IN  /\ IF diff > SwipeThreshold \/ 0 - diff > SwipeThreshold
                      THEN IF diff > 0 THEN goNext ELSE goPrev
                      ELSE UNCHANGED <<isFlipped, timers>>
                   /\ touchStart' = Null
    /\ UNCHANGED <<auditVars, quizVars, deckCards, currentIndex>>

\* Line 62: a click on the card.
FlipCard ==
    /\ pc = "site"
    /\ deckCards > 0
    /\ isFlipped' = ~isFlipped
    /\ UNCHANGED <<auditVars, quizVars, deckCards, currentIndex, touchStart,
                   timers>>

\* Lines 25 and 32: the oldest pending callback runs setCurrentIndex with
\* the index it captured.
TimerFires ==
    /\ pc = "site"
    /\ timers # <<>>
    /\ currentIndex' = Head(timers)
    /\ timers' = Tail(timers)
    /\ UNCHANGED <<auditVars, quizVars, deckCards, isFlipped, touchStart>>

NextFlashcard ==
    \/ ClickNext \/ ClickPrev \/ handleTouchStart \/ handleTouchEnd
    \/ FlipCard \/ TimerFires

SpecFlashcard == InitFlashcard /\ [][NextFlashcard]_vars

----------------------------------------------------------------------------
(* Properties *)

\* The Issues recorded for the i-th file audited.
IssuesFor(i) == SelectSeq(issues, LAMBDA x : x.file = relPath(unitFiles[i]))

\* The document the i-th audit decoded.
Doc(i) == reads[i].file.data

\* The i-th audit decoded a document and returned.
Returned(i) == reads[i].file.ok /\ ~reads[i].thrown

\* The i-th audit returned after going through a non-empty sections array.
WentThroughSections(i) ==
    /\ Returned(i)
    /\ IsArray(Get(Doc(i), "sections"))
    /\ Len(Get(Doc(i), "sections").v) > 0

SectionsOf(i) == Get(Doc(i), "sections").v

\* The Issues of the i-th file whose message is about section k (from 1).
SectionIssues(i, k) ==
    SelectSeq(IssuesFor(i), LAMBDA x :
        startsWith(x.problem,
                   Chars("sections[") \o NatToString(k - 1) \o Chars("] (")))

\* The elements of the array `key` of section k, if it is of type `type`.
ElementsOf(i, k, type, key) ==
    LET section == SectionsOf(i)[k]
    IN  IF Get(section, "type") = JS(type) /\ IsArray(Get(section, key))
        THEN Get(section, key).v ELSE <<>>

FindingLines ==
    SelectSeq(out, LAMBDA l : \/ startsWith(l, Chars("  [MISSING FILE] "))
                              \/ startsWith(l, Chars("  [ORPHAN FILE] ")))
VerdictLines == SelectSeq(out, LAMBDA l : startsWith(l, Chars("VERDICT: ")))

\* C1: a run that reaches the final verdict prints FAIL exactly when the
\* recorded Issues plus the cross-reference findings are more than zero,
\* with that sum as the problem count, and PASS otherwise.
C1_VerdictCountsAllProblems ==
    pc = "done" =>
        LET n == Len(issues) + Len(FindingLines)
        IN  VerdictLines =
              <<IF n > 0
                THEN Chars("VERDICT: FAIL (") \o NatToString(n)
                     \o Chars(" total problem(s))")
                ELSE Chars("VERDICT: PASS")>>

\* A run without any Issue that fails on two cross-reference findings.
C1_Witness ==
    /\ pc = "done"
    /\ issues = <<>>
    /\ Len(reads) = 2
    /\ Len(FindingLines) = 2
    /\ VerdictLines = <<Chars("VERDICT: FAIL (2 total problem(s))")>>

\* C2: whatever JSON values the unit files hold, the run never ends in a
\* thrown fault, and a finished run has printed exactly one verdict line.
C2_RunNeverFaults ==
    /\ pc # "crashed"
    /\ pc = "done" => Len(VerdictLines) = 1

\* C3: a unit file that cannot be read or decoded gets exactly one Issue, of
\* category parse, and no other; it is not counted in the units checked; the
\* failure leaves the loop running on the next file, and a run that gets to
\* the cross-reference has audited every discovered file.
C3_ParseFailureIsOneIssue ==
    /\ \A i \in 1..Len(reads) :
          ~reads[i].file.ok =>
              /\ Len(IssuesFor(i)) = 1
              /\ IssuesFor(i)[1].sectionType = "parse"
              /\ ~reads[i].thrown
              /\ i = Len(reads) => pc # "crashed" /\ next = i + 1
    /\ totalUnitsChecked = Cardinality({i \in 1..Len(reads) : reads[i].file.ok})
    /\ pc \in {"report", "verdict", "done"} => Len(reads) = Len(unitFiles)

\* A finished run whose first file failed to decode and whose second file
\* was audited after it.
C3_Witness ==
    /\ pc = "done"
    /\ Len(reads) = 2
    /\ ~reads[1].file.ok
    /\ reads[2].file.ok
    /\ totalUnitsChecked = 1
    /\ Len(IssuesFor(1)) = 1

----------------------------------------------------------------------------
(* The data model of a unit document (section 3 of the specification) *)

NonEmptyString(x) == x.t = "str" /\ x.v # <<>>
OptionalString(x) == x = JUndef \/ NonEmptyString(x)
NonEmptyArray(x)  == IsArray(x) /\ Len(x.v) > 0
AllStrings(x, keys) == \A f \in keys : NonEmptyString(Get(x, f))

WellFormedSection(sec) ==
    /\ sec.t = "obj"
    /\ CASE Get(sec, "type") = JS("vocab") ->
              /\ NonEmptyArray(Get(sec, "items"))
              /\ \A j \in 1..Len(Get(sec, "items").v) :
                    LET item == Get(sec, "items").v[j]
                    IN  /\ AllStrings(item, {"japanese", "reading", "romaji",
                                             "chinese"})
                        /\ OptionalString(Get(item, "example"))
                        /\ OptionalString(Get(item, "exampleChinese"))
         [] Get(sec, "type") = JS("dialogue") ->
              /\ NonEmptyString(Get(sec, "scene"))
              /\ NonEmptyArray(Get(sec, "lines"))
              /\ \A j \in 1..Len(Get(sec, "lines").v) :
                    AllStrings(Get(sec, "lines").v[j],
                               {"speaker", "japanese", "chinese"})
         [] Get(sec, "type") = JS("grammar") ->
              /\ NonEmptyArray(Get(sec, "points"))
              /\ \A j \in 1..Len(Get(sec, "points").v) :
                    LET pt == Get(sec, "points").v[j]
                    IN  /\ AllStrings(pt, {"pattern", "meaning", "structure"})
                        /\ OptionalString(Get(pt, "note"))
                        /\ NonEmptyArray(Get(pt, "examples"))
                        /\ \A e \in 1..Len(Get(pt, "examples").v) :
                              AllStrings(Get(pt, "examples").v[e],
                                         {"japanese", "chinese"})
         [] Get(sec, "type") = JS("flashcards") ->
              /\ NonEmptyArray(Get(sec, "cards"))
              /\ \A j \in 1..Len(Get(sec, "cards").v) :
                    LET card == Get(sec, "cards").v[j]
                    IN  /\ AllStrings(card, {"japanese", "reading", "romaji",
                                             "chinese"})
                        /\ Get(card, "front") = JUndef
                        /\ Get(card, "back") = JUndef
                        /\ \A j2 \in 1..(j - 1) :
                              Get(Get(sec, "cards").v[j2], "japanese")
                                  # Get(card, "japanese")
         [] Get(sec, "type") = JS("quiz") ->
              /\ NonEmptyArray(Get(sec, "questions"))
              /\ \A j \in 1..Len(Get(sec, "questions").v) :
                    LET q == Get(sec, "questions").v[j]
                    IN  /\ AllStrings(q, {"question", "explanation"})
                        /\ IsArray(Get(q, "options"))
                        /\ Len(Get(q, "options").v) = 4
                        /\ \A o \in 1..4 : NonEmptyString(Get(q, "options").v[o])
                        /\ Get(q, "correct") \in {JNum(n) : n \in 0..3}
         [] Get(sec, "type") = JS("culture") ->
              NonEmptyString(Get(sec, "content"))
         [] OTHER -> FALSE

WellFormedUnit(data) ==
    /\ data.t = "obj"
    /\ AllStrings(data, {"title", "intro", "estimatedTime"})
    /\ NonEmptyArray(Get(data, "sections"))
    /\ \A k \in 1..Len(Get(data, "sections").v) :
          WellFormedSection(Get(data, "sections").v[k])
    /\ \A req \in {"flashcards", "quiz", "vocab", "dialogue", "grammar"} :
          \E k \in 1..Len(Get(data, "sections").v) :
              Get(Get(data, "sections").v[k], "type") = JS(req)
    /\ findEmptyStrings(data, Chars("root")) = <<>>
    /\ findForbiddenNames(data, Chars("root")) = <<>>

\* C4: auditUnit records no Issue for a unit document that satisfies every
\* invariant of the data model, its vocab items with or without the
\* optional example and exampleChinese.
C4_WellFormedUnitHasNoIssue ==
    \A i \in 1..Len(reads) :
        reads[i].file.ok /\ WellFormedUnit(Doc(i)) =>
            ~reads[i].thrown /\ IssuesFor(i) = <<>>

\* The Issues of the i-th file that name the top-level field f.
TopLevelIssuesNaming(i, f) ==
    SelectSeq(IssuesFor(i), LAMBDA x :
        /\ x.sectionType = "general"
        /\ ~startsWith(x.problem, Chars("sections["))
        /\ includes(x.problem, Chars("\"") \o Chars(f) \o Chars("\"")))

\* The Issues of section k that report field f of element j (from 1) of
\* its array `key` as missing.
ElementIssuesNaming(i, k, key, j, f) ==
    SelectSeq(SectionIssues(i, k), LAMBDA x :
        includes(x.problem,
                 Chars(": ") \o Chars(key) \o Chars("[") \o NatToString(j - 1)
                 \o Chars("] missing \"") \o Chars(f) \o Chars("\"")))

\* The fields the data model requires of the elements of each section type.
ElementKinds ==
    {[type |-> "vocab", key |-> "items",
      fields |-> {"japanese", "reading", "romaji", "chinese"}],
     [type |-> "dialogue", key |-> "lines",
      fields |-> {"speaker", "japanese", "chinese"}],
     [type |-> "grammar", key |-> "points",
      fields |-> {"pattern", "meaning", "structure", "examples"}],
     [type |-> "flashcards", key |-> "cards",
      fields |-> {"japanese", "reading", "romaji", "chinese"}],
     [type |-> "quiz", key |-> "questions",
      fields |-> {"question", "options", "correct", "explanation"}]}

\* C5: every required field that is absent (a top-level field; a field of
\* an item, line, point, card or question) gets exactly one Issue naming it
\* for that occurrence.
C5_OneIssuePerMissingField ==
    \A i \in 1..Len(reads) :
        Returned(i) =>
            /\ \A f \in {"title", "intro", "estimatedTime", "sections"} :
                  Get(Doc(i), f) = JUndef =>
                      Len(TopLevelIssuesNaming(i, f)) = 1
            /\ WentThroughSections(i) =>
                  \A k \in 1..Len(SectionsOf(i)) : \A kind \in ElementKinds :
                      LET els == ElementsOf(i, k, kind.type, kind.key)
                      IN  \A j \in 1..Len(els) : \A f \in kind.fields :
                              Get(els[j], f) = JUndef =>
                                  Len(ElementIssuesNaming(i, k, kind.key, j, f)) = 1

\* The forbidden-name Issues of the i-th file.
ForbiddenNameIssues(i) ==
    SelectSeq(IssuesFor(i), LAMBDA x : x.sectionType = "forbidden-name")

\* C6: in a decoded document every string that contains one of the two
\* forbidden names, at any depth and whatever the sections field is, gets
\* exactly one forbidden-name Issue with its path; no other string gets one.
C6_EveryForbiddenNameReported ==
    \A i \in 1..Len(reads) :
        Returned(i) =>
            LET found == findForbiddenNames(Doc(i), Chars("root"))
            IN  /\ Len(ForbiddenNameIssues(i)) = Len(found)
                /\ \A j \in 1..Len(found) :
                      ForbiddenNameIssues(i)[j].problem =
                          Chars("Found forbidden name \"") \o found[j].matched
                          \o Chars("\" at ") \o found[j].path

\* The empty-string Issues of the i-th file.
EmptyStringIssues(i) ==
    SelectSeq(IssuesFor(i), LAMBDA x : x.sectionType = "empty-string")

\* C7: for a document audited through its sections, the empty-string Issues
\* are exactly the empty strings inside the sections subtree; an empty
\* string under any other top-level key gets none.
C7_EmptyStringsOnlyUnderSections ==
    \A i \in 1..Len(reads) :
        WentThroughSections(i) =>
            LET inside == findEmptyStrings(Get(Doc(i), "sections"),
                                           Chars("root.sections"))
            IN  /\ Len(EmptyStringIssues(i)) = Len(inside)
                /\ \A j \in 1..Len(inside) :
                      EmptyStringIssues(i)[j].problem =
                          Chars("Empty string at ") \o inside[j]

\* The Issues of section k about the options of its question j (from 1).
OptionsIssues(i, k, j) ==
    LET at == Chars(": questions[") \o NatToString(j - 1) \o Chars("] ")
    IN  SelectSeq(SectionIssues(i, k), LAMBDA x :
            \/ includes(x.problem, at \o Chars("has "))
            \/ includes(x.problem, at \o Chars("\"options\""))
            \/ includes(x.problem, at \o Chars("missing \"options\"")))

\* C8: a quiz question whose options is a sequence gets exactly one Issue
\* about its options, stating the actual length, when that length is not 4,
\* and none when it is 4.
C8_OptionsLengthMustBeFour ==
    \A i \in 1..Len(reads) :
        WentThroughSections(i) =>
            \A k \in 1..Len(SectionsOf(i)) :
                LET qs == ElementsOf(i, k, "quiz", "questions")
                IN  \A j \in 1..Len(qs) :
                        IsArray(Get(qs[j], "options")) =>
                            LET n == Len(Get(qs[j], "options").v)
                            IN  IF n = 4 THEN OptionsIssues(i, k, j) = <<>>
                                ELSE /\ Len(OptionsIssues(i, k, j)) = 1
                                     /\ includes(OptionsIssues(i, k, j)[1].problem,
                                            Chars("] has ") \o NatToString(n)
                                            \o Chars(" options (expected 4)"))

\* Questions with 3, with 0 and with more than 4 options were audited, the
\* one with 3 options getting the Issue that cites 3.
C8_Witness ==
    \E i \in 1..Len(reads) :
        /\ WentThroughSections(i)
        /\ Len(SectionsOf(i)) = 5
        /\ LET qs == ElementsOf(i, 5, "quiz", "questions")
           IN  /\ Len(qs) = 2
               /\ Get(qs[2], "options") = Options(3)
               /\ Len(OptionsIssues(i, 5, 2)) = 1
               /\ includes(OptionsIssues(i, 5, 2)[1].problem,
                           Chars("questions[1] has 3 options (expected 4)"))
               /\ OptionsIssues(i, 5, 1) = <<>>

\* The Issues of section k about the correct answer of its question j.
CorrectIssues(i, k, j) ==
    SelectSeq(SectionIssues(i, k), LAMBDA x :
        includes(x.problem, Chars(": questions[") \o NatToString(j - 1)
                            \o Chars("] \"correct\" is ")))

\* C9: a present `correct` is accepted without an Issue exactly when it is
\* an integer in [0,3]; any other present value gets exactly one Issue that
\* cites the value.
C9_CorrectIsIntegerInRange ==
    \A i \in 1..Len(reads) :
        WentThroughSections(i) =>
            \A k \in 1..Len(SectionsOf(i)) :
                LET qs == ElementsOf(i, k, "quiz", "questions")
                IN  \A j \in 1..Len(qs) :
                        LET correct == Get(qs[j], "correct")
                        IN  ~Nullish(correct) =>
                                IF correct \in {JNum(n) : n \in 0..3}
                                THEN CorrectIssues(i, k, j) = <<>>
                                ELSE /\ Len(CorrectIssues(i, k, j)) = 1
                                     /\ includes(CorrectIssues(i, k, j)[1].problem,
                                            Chars("\"correct\" is ")
                                            \o JSToString(correct)
                                            \o Chars(" (expected 0-3)"))

\* The DUPLICATE Issues of section k.
DuplicateIssues(i, k) ==
    SelectSeq(SectionIssues(i, k), LAMBDA x :
        includes(x.problem, Chars(": DUPLICATE flashcard")))

\* C10: in a flashcards section whose cards all carry a non-empty japanese
\* string and no front or back, there is one DUPLICATE Issue for each card
\* whose japanese equals that of an earlier card, and none for the first
\* card carrying a value.
C10_OneDuplicatePerRepeat ==
    \A i \in 1..Len(reads) :
        WentThroughSections(i) =>
            \A k \in 1..Len(SectionsOf(i)) :
                LET cards == ElementsOf(i, k, "flashcards", "cards")
                    repeats == {j \in 1..Len(cards) :
                                   \E j2 \in 1..(j - 1) :
                                       Get(cards[j2], "japanese")
                                           = Get(cards[j], "japanese")}
                IN  (\A j \in 1..Len(cards) :
                        /\ NonEmptyString(Get(cards[j], "japanese"))
                        /\ Get(cards[j], "front") = JUndef
                        /\ Get(cards[j], "back") = JUndef)
                    => Len(DuplicateIssues(i, k)) = Cardinality(repeats)

\* The old-format Issues of card j (from 1) of section k.
LegacyIssues(i, k, j) ==
    SelectSeq(SectionIssues(i, k), LAMBDA x :
        includes(x.problem,
                 Chars(": cards[") \o NatToString(j - 1)
                 \o Chars("] uses old \"front/back\" format")))

\* C11: a card with a front or a back field gets exactly one old-format
\* Issue, a card with neither gets none, and in both cases each of
\* japanese, reading, romaji, chinese that is absent from the card gets
\* exactly one missing-field Issue and each that is present with a value
\* gets none.
C11_LegacyIssueBesidesMissingFields ==
    \A i \in 1..Len(reads) :
        WentThroughSections(i) =>
            \A k \in 1..Len(SectionsOf(i)) :
                LET cards == ElementsOf(i, k, "flashcards", "cards")
                IN  \A j \in 1..Len(cards) :
                        /\ Len(LegacyIssues(i, k, j))
                             = IF \/ Get(cards[j], "front") # JUndef
                                  \/ Get(cards[j], "back") # JUndef
                               THEN 1 ELSE 0
                        /\ \A f \in {"japanese", "reading", "romaji", "chinese"} :
                              /\ Get(cards[j], f) = JUndef =>
                                    Len(ElementIssuesNaming(i, k, "cards", j, f)) = 1
                              /\ ~Nullish(Get(cards[j], f)) =>
                                    Len(ElementIssuesNaming(i, k, "cards", j, f)) = 0

\* An audited flashcards section holds a card with a back and no front that
\* lacks japanese and reading: one old-format Issue and two missing-field
\* Issues are recorded for it.
C11_Witness ==
    \E i \in 1..Len(reads) :
        /\ WentThroughSections(i)
        /\ \E k \in 1..Len(SectionsOf(i)) :
              LET cards == ElementsOf(i, k, "flashcards", "cards")
              IN  \E j \in 1..Len(cards) :
                      /\ Get(cards[j], "front") = JUndef
                      /\ Get(cards[j], "back") # JUndef
                      /\ Get(cards[j], "japanese") = JUndef
                      /\ Get(cards[j], "reading") = JUndef
                      /\ Get(cards[j], "romaji") # JUndef
                      /\ Len(LegacyIssues(i, k, j)) = 1
                      /\ Len(ElementIssuesNaming(i, k, "cards", j, "japanese")) = 1
                      /\ Len(ElementIssuesNaming(i, k, "cards", j, "reading")) = 1

\* The missing-section Issues of the i-th file.
MissingSectionIssues(i) ==
    SelectSeq(IssuesFor(i), LAMBDA x : x.sectionType = "missing-section")

\* The positions in `issues` of the Issues selected by Test(_).
PositionsWhere(Test(_)) == {n \in 1..Len(issues) : Test(issues[n])}

\* The section type req is the type of a section of the i-th document.
HasSectionOfType(i, req) ==
    \E k \in 1..Len(SectionsOf(i)) : Get(SectionsOf(i)[k], "type") = JS(req)

\* C12: an audit that goes through a non-empty sections array records,
\* after the Issues of its sections, exactly one missing-section Issue for
\* each of flashcards, quiz, vocab, dialogue, grammar that is the type of no
\* section, none for a type some section has, and none about culture.
C12_OneIssuePerMissingRequiredSection ==
    \A i \in 1..Len(reads) :
        WentThroughSections(i) =>
            LET absent == {req \in {"flashcards", "quiz", "vocab", "dialogue",
                                    "grammar"} : ~HasSectionOfType(i, req)}
            IN  /\ Len(MissingSectionIssues(i)) = Cardinality(absent)
                /\ \A req \in absent :
                      Len(SelectSeq(MissingSectionIssues(i), LAMBDA x :
                            x.problem = Chars("Unit is missing a \"")
                                        \o Chars(req) \o Chars("\" section")))
                        = 1
                /\ \A n \in PositionsWhere(LAMBDA x :
                                /\ x.file = relPath(unitFiles[i])
                                /\ x.sectionType = "missing-section") :
                      \A n2 \in PositionsWhere(LAMBDA x :
                                /\ x.file = relPath(unitFiles[i])
                                /\ startsWith(x.problem, Chars("sections["))) :
                          n2 < n

\* An audited unit has a vocab section with a faulty array, no quiz section
\* and no culture section: the Issue about the array is recorded, and four
\* missing-section Issues (every required type but vocab) follow it.
C12_Witness ==
    \E i \in 1..Len(reads) :
        /\ WentThroughSections(i)
        /\ HasSectionOfType(i, "vocab")
        /\ ~HasSectionOfType(i, "quiz")
        /\ ~HasSectionOfType(i, "culture")
        /\ Len(MissingSectionIssues(i)) = 4
        /\ \E n \in 1..Len(IssuesFor(i)) :
              startsWith(IssuesFor(i)[n].problem, Chars("sections["))

\* The Issues of section k that are about its array `key` as a whole.
ArrayIssues(i, k, key) ==
    SelectSeq(SectionIssues(i, k), LAMBDA x :
        \/ includes(x.problem,
                    Chars("): missing \"") \o Chars(key) \o Chars("\" array"))
        \/ includes(x.problem,
                    Chars("): \"") \o Chars(key) \o Chars("\" is not an array"))
        \/ includes(x.problem,
                    Chars("): \"") \o Chars(key) \o Chars("\" array is empty")))

\* The Issues of section k that are about one element of its array `key`,
\* or about two of them (a duplicate).
PerItemIssues(i, k, key) ==
    SelectSeq(SectionIssues(i, k), LAMBDA x :
        \/ includes(x.problem, Chars(": ") \o Chars(key) \o Chars("["))
        \/ includes(x.problem, Chars(": DUPLICATE flashcard")))

\* The array `key` of a section is missing, is not an array, or is empty.
FaultyArray(section, key) ==
    \/ ~IsArray(Get(section, key))
    \/ Len(Get(section, key).v) = 0

\* C16: a vocab, dialogue, grammar, flashcards or quiz section whose items,
\* lines, points, cards or questions is missing, is not an array or is
\* empty gets exactly one Issue about that array and no Issue about an
\* element of it; a section whose array has elements gets no Issue about
\* the array.
C16_FaultyArrayIsOneIssue ==
    \A i \in 1..Len(reads) :
        WentThroughSections(i) =>
            \A k \in 1..Len(SectionsOf(i)) : \A kind \in ElementKinds :
                Get(SectionsOf(i)[k], "type") = JS(kind.type) =>
                    IF FaultyArray(SectionsOf(i)[k], kind.key)
                    THEN /\ Len(ArrayIssues(i, k, kind.key)) = 1
                         /\ PerItemIssues(i, k, kind.key) = <<>>
                    ELSE ArrayIssues(i, k, kind.key) = <<>>

\* An audited unit has a flashcards section whose cards is not an array:
\* the section has its one Issue, and it is about the array.
C16_Witness ==
    \E i \in 1..Len(reads) :
        /\ WentThroughSections(i)
        /\ \E k \in 1..Len(SectionsOf(i)) :
              /\ Get(SectionsOf(i)[k], "type") = JS("flashcards")
              /\ Truthy(Get(SectionsOf(i)[k], "cards"))
              /\ ~IsArray(Get(SectionsOf(i)[k], "cards"))
              /\ Len(SectionIssues(i, k)) = 1
              /\ Len(ArrayIssues(i, k, "cards")) = 1

\* The pairs (chapter id, unit id) of the manifest, as the parser hands
\* them to the cross-reference.
ManifestPairs ==
    LET refs == parseChaptersTsRefs(chaptersTs)
    IN  {<<refs[k].chapterId, refs[k].unitId>> : k \in 1..Len(refs)}

\* The number a name carries: its digits read as a decimal.
NumberIn(name) == parseInt(SelectSeq(name, IsDigit))

\* The directories ch<N> of src/data and the files unit<N>.json of one.
ChapterDirs == {k \in 1..Len(dataDir) : isChapterName(dataDir[k].name)}
UnitFilesIn(k) ==
    {u \in 1..Len(dataDir[k].entries) : isUnitFileName(dataDir[k].entries[u])}

\* The places <<k, u>> of the unit files in the listing.
UnitPlaces == UNION {{<<k, u>> : u \in UnitFilesIn(k)} : k \in ChapterDirs}

\* The pairs (chapter id, unit id) of the unit files on disk.
DiskPairs ==
    {<<NumberIn(dataDir[pl[1]].name),
       replace(dataDir[pl[1]].entries[pl[2]], Chars(".json"), <<>>)>> :
        pl \in UnitPlaces}

ResultLines == SelectSeq(out, LAMBDA l : startsWith(l, Chars("  RESULT: ")))
MissingLines ==
    SelectSeq(out, LAMBDA l : startsWith(l, Chars("  [MISSING FILE] ")))
OrphanLines ==
    SelectSeq(out, LAMBDA l : startsWith(l, Chars("  [ORPHAN FILE] ")))

\* C13: once the cross-reference has run, it has printed one missing-file
\* finding per manifest pair that is not on disk and one orphan-file finding
\* per disk pair that is not in the manifest, it has returned the number of
\* these findings, and its result is PASS exactly when the two sets of
\* pairs are equal.
C13_FindingsAreSetDifferences ==
    pc = "report" =>
        /\ Len(MissingLines) = Cardinality(ManifestPairs \ DiskPairs)
        /\ Len(OrphanLines) = Cardinality(DiskPairs \ ManifestPairs)
        /\ crossIssues = Cardinality(ManifestPairs \ DiskPairs)
                         + Cardinality(DiskPairs \ ManifestPairs)
        /\ Len(ResultLines) = 1
        /\ startsWith(ResultLines[1], Chars("  RESULT: PASS"))
             <=> ManifestPairs = DiskPairs

\* The directory and the file name of a discovered path.
DirNameOf(path) == split(path, "/")[Len(split(path, "/")) - 1]
FileNameOf(path) == split(path, "/")[Len(split(path, "/"))]

RECURSIVE ManifestEntries(_, _, _)
ManifestEntries(content, k, chapterId) ==
    IF k > Len(content) THEN <<>>
    ELSE IF content[k].k = "chapterId"
    THEN ManifestEntries(content, k + 1, parseInt(content[k].text))
    ELSE IF content[k].k = "unitId"
    THEN <<[chapterId |-> chapterId, unitId |-> content[k].text]>>
         \o ManifestEntries(content, k + 1, chapterId)
    ELSE ManifestEntries(content, k + 1, chapterId)

\* C17: the refs the cross-reference got from parseChaptersTsRefs are the
\* unit entries of the manifest in order, each with the id of its chapter
\* block.
C17_EveryUnitEntryIsParsed ==
    pc = "report" =>
        parseChaptersTsRefs(chaptersTs) = ManifestEntries(chaptersTs, 1, 0)

\* What the Issues of the i-th file say: category and message, in order.
MessagesOf(iss) == [n \in 1..Len(iss) |-> <<iss[n].sectionType, iss[n].problem>>]

C18_StoredScoreIsFinalScore ==
    (showResult /\ unitId /\ storage) =>
        /\ Len(progress) = 1
        /\ progress[1].quizScore = score
        /\ progress[1].quizScore <= quizTotal

\* What one step of the quiz may do to score and currentQ.
QuizStep ==
    /\ score' # score =>
          \/ ~answered /\ answered' /\ score' = score + 1 /\ currentQ' = currentQ
          \/ showResult /\ score' = 0
    /\ (answered /\ ~showResult /\ ~showResult' /\ currentQ' = currentQ) =>
          UNCHANGED <<score, selected, answered>>
    /\ currentQ' # currentQ =>
          \/ answered /\ ~answered' /\ currentQ' = currentQ + 1
          \/ showResult /\ currentQ' = 0
    /\ (showResult /\ ~showResult') =>
          /\ currentQ' = 0
          /\ selected' = Null
          /\ score' = 0
          /\ answered' = FALSE

\* C19: in every state of the quiz 0 <= currentQ < total and
\* 0 <= score <= currentQ + (1 if answered else 0); a step changes the score
\* only by scoring a question that was not answered (or by a restart), a
\* select on an answered question changes nothing, currentQ advances only
\* from an answered question, and a restart brings currentQ, selected, score,
\* showResult and answered back to their initial values.
C19_QuizStateStaysConsistent ==
    /\ [](/\ 0 <= currentQ /\ currentQ < quizTotal
          /\ 0 <= score
          /\ score <= currentQ + (IF answered THEN 1 ELSE 0))
    /\ [][QuizStep]_vars

\* The last question of a three-question quiz is answered, every question
\* so far was scored, after a restart from an earlier result screen.
C19_Witness ==
    /\ quizTotal = 3
    /\ currentQ = 2
    /\ answered
    /\ score = 3
    /\ ~showResult
    /\ Len(progress) = 1

\* C20: whatever the order of button presses, swipes and delayed index
\* updates, currentIndex is an index of the deck and so is every index a
\* pending update will set.
C20_CurrentIndexStaysInDeck ==
    /\ 0 <= currentIndex
    /\ currentIndex <= deckTotal - 1
    /\ \A n \in 1..Len(timers) : timers[n] \in 0..(deckTotal - 1)

\* A next and a previous were both handled on the second of three cards
\* before either update ran; the first update has moved to the third card
\* and the second, still pending, will jump to the first.
C20_Witness ==
    /\ deckTotal = 3
    /\ currentIndex = 2
    /\ timers = <<0>>

\* C21: whenever a delayed update of a next or previous navigation moves
\* currentIndex to a different card, the card is shown front side at that
\* moment (isFlipped is false), whatever flips, navigation events and
\* delayed updates came before.
C21_IndexChangeShowsFront ==
    [][currentIndex' # currentIndex => ~isFlipped /\ ~isFlipped']_vars

====
